---- MODULE Spec2Model ----
(***************************************************************************)
(* Verification model of hook_wallet_core: the HTTP transport helpers      *)
(* (core_client), the JSON-RPC layer (core_jsonrpc), the chain providers   *)
(* (core_evm, core_solana) and the provider registry (settings_chain).     *)
(*                                                                         *)
(* Strings whose content the code inspects are sequences of one-character  *)
(* strings, so that substring search and case folding are computed.        *)
(***************************************************************************)
EXTENDS Integers, Sequences, FiniteSets, TLC

(***************************************************************************)
(* Bounds                                                                  *)
(***************************************************************************)
MaxRetries == 3
MaxPolicyRetries == 3
MaxBodyLen == 2
MaxMints == 3
MaxTokens == 2
WordBytes == 2
MaxProviders == 3
MaxStake == 2
MaxWithdrawRequests == 2
MaxDelegations == 2
MaxAssets == 2
MaxRequests == 2
MaxBackoffRetries == 66
MaxBigUint == 300
MaxTextLen == 3
MaxHttpBodyLen == 520

(***************************************************************************)
(* State                                                                   *)
(***************************************************************************)
VARIABLES
    operation,        \* the closure: its outcome on the i-th invocation
    max_retries,      \* argument of retry
    should_retry_fn,  \* argument of retry: "None" or the name of a predicate
    attempt,          \* local of retry
    calls,            \* number of invocations of operation so far
    sleeps,           \* backoff delays slept so far, in seconds
    retry_pc,         \* "idle", "loop", "sleep", "done"
    retry_result      \* value returned by retry

retryVars == <<operation, max_retries, should_retry_fn, attempt, calls, sleeps, retry_pc, retry_result>>

VARIABLES
    client,             \* the ReqwestClient: base_url and the retry policy of its reqwest client
    path,               \* argument of get
    endpoint,           \* the upstream: its answer to the i-th attempt
    transport_attempts, \* requests put on the wire for the current call
    request_url,        \* URL of the request last put on the wire
    transport_pc,       \* "idle", "send", "done"
    transport_result    \* value returned by get

transportVars == <<client, path, endpoint, transport_attempts, request_url, transport_pc, transport_result>>

VARIABLES
    post_impl,     \* "ReqwestClient" or "RpcClient"
    post_headers,  \* argument headers: NoHeaders or a map from header name to value
    post_body,     \* argument body, as serde sees it
    wire,          \* requests handed to the network so far
    post_pc,       \* "idle", "start", "sent", "done"
    post_response, \* what the network answered to the request
    post_result    \* value returned by post

postVars == <<post_impl, post_headers, post_body, wire, post_pc, post_response, post_result>>

VARIABLES
    sol_token_ids,  \* argument token_ids of get_balance_tokens
    sol_requests,   \* the batch posted to the node
    sol_response,   \* the array the node answered with
    sol_extracted,  \* what get_token_accounts returned
    sol_result,     \* value returned by get_balance_tokens
    sol_pc          \* "idle", "start", "posted", "answered", "done"

solVars == <<sol_token_ids, sol_requests, sol_response, sol_extracted, sol_result, sol_pc>>

VARIABLES
    evm_chain,      \* chain of the EthereumClient
    evm_token_ids,  \* argument token_ids of get_balance_tokens
    evm_calls,      \* the calls packed into the aggregate3 eth_call
    evm_holdings,   \* per call: whether balanceOf succeeds, and the balance held
    evm_returned,   \* the (success, returnData) tuples the eth_call returned
    evm_result,     \* value returned by get_balance_tokens
    evm_pc          \* "idle", "start", "posted", "answered", "done"

evmVars == <<evm_chain, evm_token_ids, evm_calls, evm_holdings, evm_returned, evm_result, evm_pc>>

VARIABLES
    providers,      \* ChainProviders.providers: the chain each provider reports
    reg_entry,      \* the operation called: its layer and its name
    reg_chain,      \* argument chain
    reg_selected,   \* index of the provider get_provider returned, 0 for none
    provider_log,   \* the provider methods called so far
    provider_out,   \* what the called provider method returned
    reg_result,     \* value returned by the operation
    reg_pc          \* "idle", "start", "awaiting", "done"

regVars == <<providers, reg_entry, reg_chain, reg_selected, provider_log, provider_out, reg_result, reg_pc>>

VARIABLES
    account_state,      \* what the Everstake pool reports for the address, or its failure
    current_epoch,      \* the epoch withdraw requests are compared with
    delegations,        \* local of get_ethereum_staking_balance: the derived delegations
    next_delegation,    \* position of the for loop in delegations
    staked,             \* local accumulator
    rewards,            \* local accumulator
    pending,            \* local accumulator
    stake_result,       \* value returned by get_ethereum_staking_balance
    staking_chain,      \* self.chain of the EthereumClient
    staking_rpc_calls,  \* number of contract reads issued
    stake_pc            \* "idle", "dispatch", "start", "fold", "done"

stakeVars == <<account_state, current_epoch, delegations, next_delegation, staked, rewards, pending, stake_result, staking_chain, staking_rpc_calls, stake_pc>>

VARIABLES
    assets_chain,   \* chain of the EthereumClient
    ankr_client,    \* self.ankr_client: "Some" or "None"
    ankr_answer,    \* what ankr_getAccountBalance answers: the assets, or a failure
    ankr_requests,  \* number of requests issued to the Ankr endpoint
    assets_result,  \* value returned by get_balance_assets
    assets_pc       \* "idle", "start", "requested", "done"

assetVars == <<assets_chain, ankr_client, ankr_answer, ankr_requests, assets_result, assets_pc>>

VARIABLES
    api_providers,  \* chains the managed ChainClient has a provider for
    api_request,    \* per request: the route, the chain segment and what its upstream call will do
    api_pc,         \* per request: "new", "routed", "locked", "upstream", "done"
    mutex,          \* holder of the Mutex around the managed ChainClient, 0 when free
    api_response    \* per request: the HTTP status and the JSON body answered

apiVars == <<api_providers, api_request, api_pc, mutex, api_response>>

VARIABLES
    serde_codec,    \* the serializer / deserializer pair in use
    serde_value,    \* Some(value given to the serializer), None when a received text is decoded
    serde_wire,     \* the JSON value between serializer and deserializer
    serde_decoded,  \* what the deserializer returned
    serde_pc        \* "idle", "encode", "decode", "done"

serdeVars == <<serde_codec, serde_value, serde_wire, serde_decoded, serde_pc>>

vars == <<retryVars, transportVars, postVars, solVars, evmVars, regVars, stakeVars, assetVars, apiVars, serdeVars>>

\* everything outside retryVars
notRetryVars == <<transportVars, postVars, solVars, evmVars, regVars, stakeVars, assetVars, apiVars, serdeVars>>
\* everything outside transportVars
notTransportVars == <<retryVars, postVars, solVars, evmVars, regVars, stakeVars, assetVars, apiVars, serdeVars>>
\* everything outside postVars
notPostVars == <<retryVars, transportVars, solVars, evmVars, regVars, stakeVars, assetVars, apiVars, serdeVars>>
\* everything outside solVars
notSolanaVars == <<retryVars, transportVars, postVars, evmVars, regVars, stakeVars, assetVars, apiVars, serdeVars>>
\* everything outside evmVars
notEvmVars == <<retryVars, transportVars, postVars, solVars, regVars, stakeVars, assetVars, apiVars, serdeVars>>
\* everything outside regVars
notRegistryVars == <<retryVars, transportVars, postVars, solVars, evmVars, stakeVars, assetVars, apiVars, serdeVars>>
\* everything outside stakeVars
notStakingVars == <<retryVars, transportVars, postVars, solVars, evmVars, regVars, assetVars, apiVars, serdeVars>>
\* everything outside assetVars
notAssetsVars == <<retryVars, transportVars, postVars, solVars, evmVars, regVars, stakeVars, apiVars, serdeVars>>
\* everything outside apiVars
notApiVars == <<retryVars, transportVars, postVars, solVars, evmVars, regVars, stakeVars, assetVars, serdeVars>>
\* everything outside serdeVars
notSerdeVars == <<retryVars, transportVars, postVars, solVars, evmVars, regVars, stakeVars, assetVars, apiVars>>

(***************************************************************************)
(* String helpers (std::string::String)                                    *)
(***************************************************************************)
UpperChars == <<"A", "B", "C", "D", "E", "F", "G", "H", "I", "J", "K", "L", "M", "N", "O", "P", "Q", "R", "S", "T", "U", "V", "W", "X", "Y", "Z">>
LowerChars == <<"a", "b", "c", "d", "e", "f", "g", "h", "i", "j", "k", "l", "m", "n", "o", "p", "q", "r", "s", "t", "u", "v", "w", "x", "y", "z">>

LowerChar(c) ==
    IF \E i \in 1..Len(UpperChars) : UpperChars[i] = c
    THEN LowerChars[CHOOSE i \in 1..Len(UpperChars) : UpperChars[i] = c]
    ELSE c

\* str::to_lowercase
to_lowercase(s) == [i \in 1..Len(s) |-> LowerChar(s[i])]

\* str::contains(pattern): pattern occurs as a contiguous substring
contains(s, pat) ==
    \E i \in 0..(Len(s) - Len(pat)) :
        \A j \in 1..Len(pat) : s[i + j] = pat[j]

S_429 == <<"4", "2", "9">>
S_502 == <<"5", "0", "2">>
S_503 == <<"5", "0", "3">>
S_504 == <<"5", "0", "4">>
S_too_many_requests == <<"t", "o", "o", " ", "m", "a", "n", "y", " ", "r", "e", "q", "u", "e", "s", "t", "s">>
S_throttled == <<"t", "h", "r", "o", "t", "t", "l", "e", "d">>
S_custom == <<"c", "u", "s", "t", "o", "m">>

\* Error messages used by the retry tests (retry.rs:257, 310, 337, 201)
ErrorMsg503 == <<"E", "r", "r", "o", "r", " ", "5", "0", "3">>
ErrorMsg404 == <<"E", "r", "r", "o", "r", " ", "4", "0", "4", " ", "N", "o", "t", " ", "F", "o", "u", "n", "d">>
ErrorMsgThrottled == <<"R", "e", "q", "u", "e", "s", "t", " ", "T", "H", "R", "O", "T", "T", "L", "E", "D">>
ErrorMsgCustom == <<"c", "u", "s", "t", "o", "m", " ", "e", "r", "r", "o", "r">>

Min(a, b) == IF a < b THEN a ELSE b

(***************************************************************************)
(* core_client::retry                                                      *)
(***************************************************************************)

Ok(v) == [tag |-> "Ok", value |-> v]
Err(e) == [tag |-> "Err", error |-> e]
NoResult == [tag |-> "None"]

OperationOutcomes ==
    {Ok(42), Ok(100), Err(ErrorMsg503), Err(ErrorMsgThrottled), Err(ErrorMsg404), Err(ErrorMsgCustom)}

Predicates == {"None", "custom"}

\* a predicate that searches the error string as it is written
default_should_retry_case_sensitive(error) ==
    \/ contains(error, S_429)
    \/ contains(error, S_502)
    \/ contains(error, S_503)
    \/ contains(error, S_504)
    \/ contains(error, S_too_many_requests)
    \/ contains(error, S_throttled)

\* default_should_retry(error)
default_should_retry(error) ==
    LET error_str == to_lowercase(error)
    IN  \/ contains(error_str, S_429)
        \/ contains(error_str, S_502)
        \/ contains(error_str, S_503)
        \/ contains(error_str, S_504)
        \/ contains(error_str, S_too_many_requests)
        \/ contains(error_str, S_throttled)

\* the predicate of test_retry_custom_predicate: |e| e.contains("custom")
custom_predicate(error) == contains(error, S_custom)

\* a decision that also consults the default predicate when a predicate is given
should_retry_error_or_default(fn, err) ==
    IF fn = "None" THEN default_should_retry(err)
    ELSE custom_predicate(err) \/ default_should_retry(err)

\* match &should_retry_fn { Some(predicate) => predicate(&err), None => default_should_retry(&err) }
should_retry_error(fn, err) ==
    IF fn = "None" THEN default_should_retry(err) ELSE custom_predicate(err)

\* if should_retry_error && attempt < max_retries
retry_continues_off_by_one(fn, err, att, max) == should_retry_error(fn, err) /\ att + 1 < max
retry_continues_ignores_predicate(fn, err, att, max) == att < max
retry_continues_one_more(fn, err, att, max) == should_retry_error(fn, err) /\ att <= max
retry_continues(fn, err, att, max) == should_retry_error(fn, err) /\ att < max

\* u64 values of 2^30 and above are kept as U64Top: the code only compares
\* them with 1800
U64Top == 2^30

\* 2_u64.saturating_pow(exp): 2^exp, or u64::MAX when 2^exp does not fit 64 bits
saturating_pow(exp) ==
    IF exp >= 64 THEN U64Top
    ELSE IF exp >= 30 THEN U64Top
    ELSE 2^exp

\* 2_u64.wrapping_pow(exp): 2^exp modulo 2^64
wrapping_pow(exp) ==
    IF exp >= 64 THEN 0
    ELSE IF exp >= 30 THEN U64Top
    ELSE 2^exp

\* a delay computed with a power that wraps around
backoff_delay_wrapping(att) == Min(wrapping_pow(att), 1800)

\* Duration::from_secs(2_u64.saturating_pow(attempt).min(1800))
backoff_delay(att) == Min(saturating_pow(att), 1800)

\* the error handed back by the Err arm: return Err(err)
retry_returned_error_first(err) == operation[1].error
retry_returned_error(err) == err

retryIdle ==
    /\ operation = <<>>
    /\ max_retries = 0
    /\ should_retry_fn = "None"
    /\ attempt = 0
    /\ calls = 0
    /\ sleeps = <<>>
    /\ retry_pc = "idle"
    /\ retry_result = NoResult

\* retry(operation, max_retries, should_retry_fn): let mut attempt = 0
RetryInit ==
    /\ operation \in [1..(MaxRetries + 1) -> OperationOutcomes]
    /\ max_retries \in 0..MaxRetries
    /\ should_retry_fn \in Predicates
    /\ attempt = 0
    /\ calls = 0
    /\ sleeps = <<>>
    /\ retry_pc = "loop"
    /\ retry_result = NoResult

\* retry is called with a large max_retries on an operation that fails with a
\* retryable error a number of times before its final outcome
BackoffInit ==
    /\ max_retries = MaxBackoffRetries
    /\ \E k \in 0..(MaxBackoffRetries + 1) : \E last \in {Ok(42), Err(ErrorMsg404)} :
        operation = [i \in 1..(MaxBackoffRetries + 1) |-> IF i <= k THEN Err(ErrorMsg503) ELSE last]
    /\ should_retry_fn = "None"
    /\ attempt = 0
    /\ calls = 0
    /\ sleeps = <<>>
    /\ retry_pc = "loop"
    /\ retry_result = NoResult

\* fragments of error messages: the statuses, the rate-limit phrases in
\* several cases, and pieces that form a status only when joined
MessageTokens ==
    {<<>>,
     <<"4", "2", "9">>,
     <<"5", "0", "2">>,
     <<"5", "0", "3">>,
     <<"5", "0", "4">>,
     <<"t", "o", "o", " ", "m", "a", "n", "y", " ", "r", "e", "q", "u", "e", "s", "t", "s">>,
     <<"T", "o", "o", " ", "M", "a", "n", "y", " ", "R", "e", "q", "u", "e", "s", "t", "s">>,
     <<"T", "O", "O", " ", "M", "A", "N", "Y", " ", "R", "E", "Q", "U", "E", "S", "T", "S">>,
     <<"t", "h", "r", "o", "t", "t", "l", "e", "d">>,
     <<"T", "h", "r", "o", "t", "t", "l", "e", "d">>,
     <<"T", "H", "R", "O", "T", "T", "L", "E", "D">>,
     <<"4", "0", "0">>,
     <<"4", "0", "1">>,
     <<"4", "0", "4">>,
     <<"5", "0", "0">>,
     <<"E", "r", "r", "o", "r">>,
     <<"4">>,
     <<"2", "9">>,
     <<"5", "0">>,
     <<"3">>}

\* Display strings of errors: two fragments, joined with or without a space
ErrorMessages == {a \o sep \o b : a \in MessageTokens, b \in MessageTokens, sep \in {<<>>, <<" ">>}}

\* retry is called with the default predicate on an operation that fails once
\* with some error and then succeeds
DecisionInit ==
    /\ max_retries = 1
    /\ \E msg \in ErrorMessages : operation = <<Err(msg), Ok(42)>>
    /\ should_retry_fn = "None"
    /\ attempt = 0
    /\ calls = 0
    /\ sleeps = <<>>
    /\ retry_pc = "loop"
    /\ retry_result = NoResult

\* operation().await => Ok(result) => return Ok(result)
RetryOk ==
    /\ retry_pc = "loop"
    /\ operation[calls + 1].tag = "Ok"
    /\ calls' = calls + 1
    /\ retry_result' = Ok(operation[calls + 1].value)
    /\ retry_pc' = "done"
    /\ UNCHANGED <<operation, max_retries, should_retry_fn, attempt, sleeps>>
    /\ UNCHANGED notRetryVars

\* operation().await => Err(err), retried: attempt += 1; sleep(delay).await
RetryBackoff ==
    /\ retry_pc = "loop"
    /\ operation[calls + 1].tag = "Err"
    /\ retry_continues(should_retry_fn, operation[calls + 1].error, attempt, max_retries)
    /\ calls' = calls + 1
    /\ attempt' = attempt + 1
    /\ sleeps' = Append(sleeps, backoff_delay(attempt + 1))
    /\ retry_pc' = "sleep"
    /\ UNCHANGED <<operation, max_retries, should_retry_fn, retry_result>>
    /\ UNCHANGED notRetryVars

\* the sleep elapses: continue
RetryWake ==
    /\ retry_pc = "sleep"
    /\ retry_pc' = "loop"
    /\ UNCHANGED <<operation, max_retries, should_retry_fn, attempt, calls, sleeps, retry_result>>
    /\ UNCHANGED notRetryVars

\* operation().await => Err(err), not retried: return Err(err)
RetryFail ==
    /\ retry_pc = "loop"
    /\ operation[calls + 1].tag = "Err"
    /\ ~retry_continues(should_retry_fn, operation[calls + 1].error, attempt, max_retries)
    /\ calls' = calls + 1
    /\ retry_result' = Err(retry_returned_error(operation[calls + 1].error))
    /\ retry_pc' = "done"
    /\ UNCHANGED <<operation, max_retries, should_retry_fn, attempt, sleeps>>
    /\ UNCHANGED notRetryVars

RetryNext == RetryOk \/ RetryBackoff \/ RetryWake \/ RetryFail

(***************************************************************************)
(* core_client::ReqwestClient over a reqwest client with a retry policy    *)
(***************************************************************************)

Url_a == <<"h", "t", "t", "p", ":", "/", "/", "a">>
Url_a_slash == <<"h", "t", "t", "p", ":", "/", "/", "a", "/">>
Url_a_slashes == <<"h", "t", "t", "p", ":", "/", "/", "a", "/", "/">>
Url_b_port == <<"h", "t", "t", "p", "s", ":", "/", "/", "b", ":", "8">>
BaseUrls == {Url_a, Url_a_slash, Url_a_slashes, Url_b_port}
S_scheme_sep == <<":", "/", "/">>
S_slash == "/"
S_colon == ":"
Path_v1 == <<"/", "v", "1">>
Paths == {<<>>, Path_v1}

\* str::strip_suffix('/').unwrap_or(str): strips one trailing '/'
trim_one_end_match(str, c) ==
    IF Len(str) > 0 /\ str[Len(str)] = c THEN SubSeq(str, 1, Len(str) - 1) ELSE str

\* str::trim_end_matches('/'): strips every trailing '/'
RECURSIVE trim_end_matches(_, _)
trim_end_matches(str, c) ==
    IF Len(str) > 0 /\ str[Len(str)] = c
    THEN trim_end_matches(SubSeq(str, 1, Len(str) - 1), c)
    ELSE str

\* a URL built from the base with one trailing '/' stripped
build_url_one_slash(base_url, p) == trim_one_end_match(base_url, S_slash) \o p

\* format!("{}{}", self.base_url.trim_end_matches('/'), path)
build_url(base_url, p) == trim_end_matches(base_url, S_slash) \o p

\* Url::host_str of a parsed absolute URL: the text between "://" and the
\* next ':' or '/'; the empty string when the text is not an absolute URL
host_str(url) ==
    LET seps == {i \in 1..(Len(url) - 2) : SubSeq(url, i, i + 2) = S_scheme_sep}
    IN  IF seps = {} THEN <<>>
        ELSE LET start == (CHOOSE i \in seps : \A j \in seps : i <= j) + 3
                 ends == {i \in start..Len(url) : url[i] \in {S_slash, S_colon}}
                 stop == IF ends = {} THEN Len(url) + 1
                         ELSE CHOOSE i \in ends : \A j \in ends : i <= j
             IN  SubSeq(url, start, stop - 1)

\* retry::for_host(host).max_retries_per_request(max_retries)
retry_policy(host, max) == [host |-> host, max_retries_per_request |-> max]

\* ReqwestClient::new_with_retry(url, timeout_secs, max_retries)
new_with_retry(url, max) ==
    [base_url |-> url, retry |-> retry_policy(url, max), built_by |-> "new_with_retry"]

ProviderMaxRetries == 3

\* ProviderFactory::new_provider(config, user_agent)
new_provider(url) ==
    [base_url |-> url, retry |-> retry_policy(host_str(url), ProviderMaxRetries), built_by |-> "new_provider"]

\* what the upstream does with one attempt: an HTTP response with a status,
\* or a failure of the exchange itself (no response, hence no status)
Response(st) == [tag |-> "Response", status |-> st]
NetworkError(kind) == [tag |-> "Error", kind |-> kind]
Statuses == {200, 404, 500, 503}
Answers == {Response(st) : st \in Statuses} \cup {NetworkError("timeout")}

\* req_rep.status()
status(answer) == IF answer.tag = "Response" THEN answer.status ELSE 0

\* a classification that retries every server error
classify_fn_any_5xx(answer) ==
    IF answer.tag = "Error" THEN "retryable"
    ELSE IF status(answer) = 429 \/ status(answer) >= 500 THEN "retryable"
    ELSE "success"

\* classify_fn of retry_policy
classify_fn(answer) ==
    IF answer.tag = "Error" THEN "retryable"
    ELSE IF status(answer) \in {429, 500, 502, 503, 504} THEN "retryable"
    ELSE "success"

\* scope of retry::for_host: the policy applies to requests whose URI host
\* equals the host the policy was built for
policy_applies(policy, url) == policy.host = host_str(url)

\* the reqwest client re-sends a request in scope while it is classified
\* retryable and fewer than max_retries_per_request retries were made
transport_resends(policy, url, answer, retries) ==
    /\ policy_applies(policy, url)
    /\ classify_fn(answer) = "retryable"
    /\ retries < policy.max_retries_per_request

\* map_reqwest_error and send_request
transport_outcome(answer) ==
    IF answer.tag = "Error"
    THEN Err([kind |-> IF answer.kind = "timeout" THEN "Timeout" ELSE "Network", status |-> 0])
    ELSE IF status(answer) \in 200..299 THEN Ok(status(answer))
    ELSE Err([kind |-> "Http", status |-> status(answer)])

transportIdle ==
    /\ client = [base_url |-> <<>>, retry |-> retry_policy(<<>>, 0), built_by |-> "none"]
    /\ path = <<>>
    /\ endpoint = <<>>
    /\ transport_attempts = 0
    /\ request_url = <<>>
    /\ transport_pc = "idle"
    /\ transport_result = NoResult

\* a client built by one of the two constructors issues one get(path)
TransportInit ==
    /\ client \in {new_with_retry(u, m) : u \in BaseUrls, m \in 0..MaxPolicyRetries}
                    \cup {new_provider(u) : u \in BaseUrls}
    /\ path \in Paths
    /\ endpoint \in [1..(MaxPolicyRetries + 1) -> Answers]
    /\ transport_attempts = 0
    /\ request_url = <<>>
    /\ transport_pc = "send"
    /\ transport_result = NoResult

ClassifiedStatuses == {200, 201, 204, 301, 400, 401, 403, 404, 408, 429, 500, 501, 502, 503, 504, 505}
ClassifiedAnswers ==
    {Response(st) : st \in ClassifiedStatuses} \cup {NetworkError("timeout"), NetworkError("connect")}

\* a client built by new_provider issues one get(path); the first attempt is
\* answered with any status or fails without a response
ClassifyInit ==
    /\ client \in {new_provider(u) : u \in BaseUrls}
    /\ path \in Paths
    /\ \E first \in ClassifiedAnswers :
       \E rest \in [2..(ProviderMaxRetries + 1) -> {Response(200), Response(503)}] :
         endpoint = [i \in 1..(ProviderMaxRetries + 1) |-> IF i = 1 THEN first ELSE rest[i]]
    /\ transport_attempts = 0
    /\ request_url = <<>>
    /\ transport_pc = "send"
    /\ transport_result = NoResult

\* request.send(): an attempt whose answer makes the client send again
TransportResend ==
    /\ transport_pc = "send"
    /\ transport_attempts < Len(endpoint)
    /\ transport_resends(client.retry, build_url(client.base_url, path),
                         endpoint[transport_attempts + 1], transport_attempts)
    /\ transport_attempts' = transport_attempts + 1
    /\ request_url' = build_url(client.base_url, path)
    /\ UNCHANGED <<client, path, endpoint, transport_pc, transport_result>>
    /\ UNCHANGED notTransportVars

\* request.send(): an attempt whose answer is handed to the caller
TransportDeliver ==
    /\ transport_pc = "send"
    /\ transport_attempts < Len(endpoint)
    /\ ~transport_resends(client.retry, build_url(client.base_url, path),
                          endpoint[transport_attempts + 1], transport_attempts)
    /\ transport_attempts' = transport_attempts + 1
    /\ request_url' = build_url(client.base_url, path)
    /\ transport_result' = transport_outcome(endpoint[transport_attempts + 1])
    /\ transport_pc' = "done"
    /\ UNCHANGED <<client, path, endpoint>>
    /\ UNCHANGED notTransportVars

TransportNext == TransportResend \/ TransportDeliver

(***************************************************************************)
(* Client::post of ReqwestClient and RpcClient                             *)
(***************************************************************************)

CONTENT_TYPE == "Content-Type"
APPLICATION_JSON == "application/json"
TEXT_PLAIN == "text/plain"
APPLICATION_FORM_URL_ENCODED == "application/x-www-form-urlencoded"
APPLICATION_X_BINARY == "application/x-binary"

\* ContentType::as_str
as_str(ct) ==
    CASE ct = "ApplicationJson" -> APPLICATION_JSON
      [] ct = "TextPlain" -> TEXT_PLAIN
      [] ct = "ApplicationFormUrlEncoded" -> APPLICATION_FORM_URL_ENCODED
      [] ct = "ApplicationXBinary" -> APPLICATION_X_BINARY

\* ContentType::from_str(s).ok(): "None" for an unknown content type
from_str(str) ==
    CASE str = APPLICATION_JSON -> "ApplicationJson"
      [] str = TEXT_PLAIN -> "TextPlain"
      [] str = APPLICATION_FORM_URL_ENCODED -> "ApplicationFormUrlEncoded"
      [] str = APPLICATION_X_BINARY -> "ApplicationXBinary"
      [] OTHER -> "None"

NoHeaders == [tag |-> "None"]
SomeHeaders(m) == [tag |-> "Some", map |-> m]

HeaderNames == {CONTENT_TYPE, "content-type"}
HeaderValues == {APPLICATION_JSON, TEXT_PLAIN, APPLICATION_FORM_URL_ENCODED, APPLICATION_X_BINARY, "unknown/type"}
HeaderMaps == UNION {[D -> HeaderValues] : D \in SUBSET HeaderNames}

\* serde_json::to_value(body): the body kinds a Serialize type can give
Unserializable == [kind |-> "Unserializable", s |-> <<>>]
JsonString(str) == [kind |-> "String", s |-> str]
JsonNumber == [kind |-> "Number", s |-> <<"7">>]
JsonObject == [kind |-> "Object", s |-> <<"{", "}">>]

BodyChars == {"0", "a", "F", "g"}
BodyStrings == UNION {[1..n -> BodyChars] : n \in 0..MaxBodyLen}
Bodies == {Unserializable, JsonNumber, JsonObject} \cup {JsonString(str) : str \in BodyStrings}

HexDigits == <<"0", "1", "2", "3", "4", "5", "6", "7", "8", "9", "a", "b", "c", "d", "e", "f">>
UpperHexDigits == <<"0", "1", "2", "3", "4", "5", "6", "7", "8", "9", "A", "B", "C", "D", "E", "F">>

IsHexDigit(c) == \E i \in 1..16 : HexDigits[i] = c \/ UpperHexDigits[i] = c
HexVal(c) == (CHOOSE i \in 1..16 : HexDigits[i] = c \/ UpperHexDigits[i] = c) - 1

\* hex::decode: an odd length or a character outside 0-9a-fA-F is an error
hex_decode(str) ==
    IF Len(str) % 2 # 0 \/ \E i \in 1..Len(str) : ~IsHexDigit(str[i])
    THEN [tag |-> "Err", error |-> "FromHexError"]
    ELSE Ok([i \in 1..(Len(str) \div 2) |-> 16 * HexVal(str[2 * i - 1]) + HexVal(str[2 * i])])

ClientError(kind, msg) == [kind |-> kind, msg |-> msg]
\* ClientError::Http { status, len }
ClientError_Http(code, len) == [kind |-> "Http", status |-> code, len |-> len]
ClientError_Timeout == [kind |-> "Timeout"]

\* serde_json::to_vec(body): the JSON text of the body
to_vec(body) ==
    IF body.kind = "String" THEN <<"\"">> \o body.s \o <<"\"">> ELSE body.s

\* headers.get(CONTENT_TYPE).and_then(|s| ContentType::from_str(s).ok())
content_type_of(map) ==
    IF CONTENT_TYPE \in DOMAIN map THEN from_str(map[CONTENT_TYPE]) ELSE "None"

\* ReqwestClient::post: headers.unwrap_or_else(default Content-Type)
reqwest_headers(headers) ==
    IF headers.tag = "None"
    THEN [h \in {CONTENT_TYPE} |-> as_str("ApplicationJson")]
    ELSE headers.map

\* RpcClient::post: the default Content-Type extended by the given headers
rpc_headers(headers) ==
    IF headers.tag = "None"
    THEN [h \in {CONTENT_TYPE} |-> as_str("ApplicationJson")]
    ELSE [h \in {CONTENT_TYPE} \cup DOMAIN headers.map |->
            IF h \in DOMAIN headers.map THEN headers.map[h] ELSE as_str("ApplicationJson")]

\* a text arm that sends the JSON text of the string, quotes included
reqwest_request_body_quotes_text(content_type, body) ==
    IF content_type \in {"TextPlain", "ApplicationFormUrlEncoded", "ApplicationXBinary"}
    THEN IF body.kind = "Unserializable"
         THEN Err(ClientError("Serialization", "Failed to serialize request"))
         ELSE IF body.kind = "String"
              THEN IF content_type = "ApplicationXBinary"
                   THEN IF hex_decode(body.s).tag = "Err"
                        THEN Err(ClientError("Serialization", "Failed to decode hex string"))
                        ELSE Ok(hex_decode(body.s).value)
                   ELSE Ok(to_vec(body))
              ELSE Err(ClientError("Serialization", "Expected string body for text/plain or binary content-type"))
    ELSE IF body.kind = "Unserializable"
         THEN Err(ClientError("Serialization", "Failed to serialize request"))
         ELSE Ok(to_vec(body))

\* ReqwestClient::post, let request_body = match content_type { ... }
reqwest_request_body(content_type, body) ==
    IF content_type \in {"TextPlain", "ApplicationFormUrlEncoded", "ApplicationXBinary"}
    THEN IF body.kind = "Unserializable"
         THEN Err(ClientError("Serialization", "Failed to serialize request"))
         ELSE IF body.kind = "String"
              THEN IF content_type = "ApplicationXBinary"
                   THEN IF hex_decode(body.s).tag = "Err"
                        THEN Err(ClientError("Serialization", "Failed to decode hex string"))
                        ELSE Ok(hex_decode(body.s).value)
                   ELSE Ok(body.s)
              ELSE Err(ClientError("Serialization", "Expected string body for text/plain or binary content-type"))
    ELSE IF body.kind = "Unserializable"
         THEN Err(ClientError("Serialization", "Failed to serialize request"))
         ELSE Ok(to_vec(body))

\* a binary arm that forwards the string bytes without decoding them
rpc_request_body_no_hex_check(content_type, body) ==
    IF body.kind = "Unserializable"
    THEN Err(ClientError("Serialization", "JSON error"))
    ELSE IF content_type \in {"TextPlain", "ApplicationFormUrlEncoded", "ApplicationXBinary"}
         THEN IF body.kind = "String" THEN Ok(body.s)
              ELSE Err(ClientError("Serialization", "Expected string body for text/plain content-type"))
         ELSE Ok(to_vec(body))

\* RpcClient::post, let data = match content_type { ... }
rpc_request_body(content_type, body) ==
    IF content_type \in {"TextPlain", "ApplicationFormUrlEncoded"}
    THEN IF body.kind = "Unserializable"
         THEN Err(ClientError("Serialization", "JSON error"))
         ELSE IF body.kind = "String" THEN Ok(body.s)
              ELSE Err(ClientError("Serialization", "Expected string body for text/plain content-type"))
    ELSE IF content_type = "ApplicationXBinary"
    THEN IF body.kind = "Unserializable"
         THEN Err(ClientError("Serialization", "JSON error"))
         ELSE IF body.kind = "String"
              THEN IF hex_decode(body.s).tag = "Err"
                   THEN Err(ClientError("Serialization", "Failed to decode hex string"))
                   ELSE Ok(hex_decode(body.s).value)
              ELSE Err(ClientError("Serialization", "Expected hex string body for binary content-type"))
    ELSE IF body.kind = "Unserializable"
         THEN Err(ClientError("Serialization", "JSON error"))
         ELSE Ok(to_vec(body))

\* the headers and the body of the request, per implementation
post_request_headers(impl, headers) ==
    IF impl = "ReqwestClient" THEN reqwest_headers(headers) ELSE rpc_headers(headers)

post_request_body(impl, headers, body) ==
    IF impl = "ReqwestClient"
    THEN reqwest_request_body(content_type_of(reqwest_headers(headers)), body)
    ELSE rpc_request_body(content_type_of(rpc_headers(headers)), body)

\* what comes back for a request on the wire
\* response bodies as bytes: empty, the JSON text {}, the text oops, and one
\* byte that is not UTF-8
Body_empty == <<>>
Body_json == <<123, 125>>
Body_text == <<111, 111, 112, 115>>
Body_not_utf8 == <<255>>
ResponseBodies == {Body_empty, Body_json, Body_text, Body_not_utf8}

PostResponses ==
    {[tag |-> "Response", status |-> st, data |-> d] : st \in {200, 404}, d \in ResponseBodies}
        \cup {[tag |-> "Error", status |-> 0, data |-> <<>>]}

\* String::from_utf8_lossy(&body_bytes): every byte that is not UTF-8 becomes
\* U+FFFD, three bytes
RECURSIVE from_utf8_lossy(_)
from_utf8_lossy(bytes) ==
    IF bytes = <<>> THEN <<>>
    ELSE (IF bytes[1] >= 128 THEN <<239, 191, 189>> ELSE <<bytes[1]>>) \o from_utf8_lossy(Tail(bytes))

\* serde_json::from_slice(&bytes): Ok for a JSON text of the expected type
from_slice(bytes) ==
    IF bytes = Body_json THEN Ok("R")
    ELSE Err(ClientError("Serialization", "Failed to deserialize response"))

\* ReqwestClient: map_reqwest_error, send_request
reqwest_response(resp) ==
    IF resp.tag = "Error" THEN Err(ClientError("Network", "reqwest error"))
    ELSE IF resp.status \in 200..299 THEN from_slice(resp.data)
         ELSE Err(ClientError_Http(resp.status, Len(from_utf8_lossy(resp.data))))

\* RpcClient: into_client_error, serde_json::from_slice(&response.data)
rpc_response(resp) ==
    IF resp.tag = "Error" THEN Err(ClientError("Network", "RPC provider error"))
    ELSE from_slice(resp.data)

postIdle ==
    /\ post_impl = "ReqwestClient"
    /\ post_headers = NoHeaders
    /\ post_body = Unserializable
    /\ wire = <<>>
    /\ post_pc = "idle"
    /\ post_response = NoResult
    /\ post_result = NoResult

\* post(path, body, headers) is called on one of the implementations
PostInit ==
    /\ post_impl \in {"ReqwestClient", "RpcClient"}
    /\ post_headers \in {NoHeaders} \cup {SomeHeaders(m) : m \in HeaderMaps}
    /\ post_body \in Bodies
    /\ wire = <<>>
    /\ post_pc = "start"
    /\ post_response = NoResult
    /\ post_result = NoResult

\* the body cannot be built: return Err before the request exists
PostReject ==
    /\ post_pc = "start"
    /\ post_request_body(post_impl, post_headers, post_body).tag = "Err"
    /\ post_result' = post_request_body(post_impl, post_headers, post_body)
    /\ post_pc' = "done"
    /\ UNCHANGED <<post_impl, post_headers, post_body, wire, post_response>>
    /\ UNCHANGED notPostVars

\* the request is built and handed to the network: request.send() / provider.request(target)
PostSend ==
    /\ post_pc = "start"
    /\ post_request_body(post_impl, post_headers, post_body).tag = "Ok"
    /\ wire' = Append(wire, [headers |-> post_request_headers(post_impl, post_headers),
                             body |-> post_request_body(post_impl, post_headers, post_body).value])
    /\ post_pc' = "sent"
    /\ UNCHANGED <<post_impl, post_headers, post_body, post_response, post_result>>
    /\ UNCHANGED notPostVars

\* the exchange completes and the response is mapped to the result
PostReceive ==
    /\ post_pc = "sent"
    /\ \E resp \in PostResponses :
        /\ post_response' = resp
        /\ post_result' = IF post_impl = "ReqwestClient" THEN reqwest_response(resp) ELSE rpc_response(resp)
    /\ post_pc' = "done"
    /\ UNCHANGED <<post_impl, post_headers, post_body, wire>>
    /\ UNCHANGED notPostVars

PostNext == PostReject \/ PostSend \/ PostReceive

(***************************************************************************)
(* JSON-RPC batches and the Solana token balances                          *)
(***************************************************************************)

Mints == {"mintA", "mintB", "mintC"}
Owner == "owner"

\* the node's view of the owner: tokenAmount.amount of each token account, per mint
Ledger == [m \in Mints |-> CASE m = "mintA" -> <<1>> [] m = "mintB" -> <<2, 3>> [] OTHER -> <<>>]

JSONRPC_VERSION == "2.0"

\* JsonRpcRequest::new(id, method, params)
JsonRpcRequest(id, method, params) ==
    [jsonrpc |-> JSONRPC_VERSION, id |-> id, method |-> method, params |-> params]

\* token_accounts_by_mint_params(owner, mint)
token_accounts_by_mint_params(owner, mint) ==
    <<[owner |-> owner], [mint |-> mint], [encoding |-> "jsonParsed"]>>

\* get_token_accounts: one getTokenAccountsByOwner call per mint, in order
token_account_calls(address, token_mints) ==
    [i \in 1..Len(token_mints) |->
        [method |-> "getTokenAccountsByOwner",
         params |-> token_accounts_by_mint_params(address, token_mints[i])]]

\* JsonRpcClient::batch_call: ids are assigned sequentially from 1
batch_call_requests(batch) ==
    [i \in 1..Len(batch) |-> JsonRpcRequest(i, batch[i].method, batch[i].params)]

\* JsonRpcClient::batch_call: the answered array becomes the JsonRpcResults
\* as it was received; the decoder does not look at the ids
batch_call_results(response) == response

\* JsonRpcResult::Value(JsonRpcResponse { id, result })
JsonRpcValue(id, result) == [tag |-> "Value", id |-> id, result |-> result]
\* JsonRpcResult::Error(JsonRpcErrorResponse { id, error })
JsonRpcErrorResult(id) == [tag |-> "Error", id |-> id, result |-> <<>>]

\* an extraction that keeps one (empty) entry for every Error entry
extract_error_placeholder(results) ==
    [j \in 1..Len(results) |-> results[j].result]

\* JsonRpcResults::extract
RECURSIVE extract(_)
extract(results) ==
    IF results = <<>> THEN <<>>
    ELSE IF results[1].tag = "Value"
         THEN <<results[1].result>> \o extract(Tail(results))
         ELSE extract(Tail(results))

RECURSIVE Sum(_)
Sum(seq) == IF seq = <<>> THEN 0 ELSE seq[1] + Sum(Tail(seq))

\* map_token_accounts(token_accounts, token_id): the amounts of the parsed
\* accounts summed into one AssetBalance for the token id
map_token_accounts(token_accounts, token_id) ==
    <<[asset_id |-> [chain |-> "solana", token_id |-> token_id], available |-> Sum(token_accounts)]>>

\* results.iter().zip(&token_ids).flat_map(map_token_accounts).collect()
RECURSIVE zip_flat_map(_, _)
zip_flat_map(results, token_ids) ==
    IF results = <<>> \/ token_ids = <<>> THEN <<>>
    ELSE map_token_accounts(results[1], token_ids[1]) \o zip_flat_map(Tail(results), Tail(token_ids))

\* the node answers request req: the token accounts of the mint it names
node_answer(req, ok) ==
    IF ok THEN JsonRpcValue(req.id, Ledger[req.params[2].mint])
    ELSE JsonRpcErrorResult(req.id)

Orders(n) == {f \in [1..n -> 1..n] : \A i, j \in 1..n : f[i] = f[j] => i = j}

solIdle ==
    /\ sol_token_ids = <<>>
    /\ sol_requests = <<>>
    /\ sol_response = <<>>
    /\ sol_extracted = <<>>
    /\ sol_result = NoResult
    /\ sol_pc = "idle"

\* get_balance_tokens(address, token_ids) is called
SolInit ==
    /\ sol_token_ids \in UNION {[1..n -> Mints] : n \in 0..MaxMints}
    /\ sol_requests = <<>>
    /\ sol_response = <<>>
    /\ sol_extracted = <<>>
    /\ sol_result = NoResult
    /\ sol_pc = "start"

\* get_token_accounts: build the calls; batch_call: post them as one array
SolPost ==
    /\ sol_pc = "start"
    /\ sol_requests' = batch_call_requests(token_account_calls(Owner, sol_token_ids))
    /\ sol_pc' = "posted"
    /\ UNCHANGED <<sol_token_ids, sol_response, sol_extracted, sol_result>>
    /\ UNCHANGED notSolanaVars

\* the node answers every request, each with a value or an error, in an
\* order of its choosing
NodeAnswers ==
    /\ sol_pc = "posted"
    /\ \E oks \in [1..Len(sol_requests) -> BOOLEAN], order \in Orders(Len(sol_requests)) :
        sol_response' = [j \in 1..Len(sol_requests) |->
                            node_answer(sol_requests[order[j]], oks[order[j]])]
    /\ sol_pc' = "answered"
    /\ UNCHANGED <<sol_token_ids, sol_requests, sol_extracted, sol_result>>
    /\ UNCHANGED notSolanaVars

\* the post fails: batch_call(calls).await? returns the error
SolTransportFails ==
    /\ sol_pc = "posted"
    /\ sol_result' = Err("ClientError")
    /\ sol_pc' = "done"
    /\ UNCHANGED <<sol_token_ids, sol_requests, sol_response, sol_extracted>>
    /\ UNCHANGED notSolanaVars

\* batch_call returns; extract(); zip with token_ids; Ok(balances)
SolReturn ==
    /\ sol_pc = "answered"
    /\ sol_extracted' = extract(batch_call_results(sol_response))
    /\ sol_result' = Ok(zip_flat_map(extract(batch_call_results(sol_response)), sol_token_ids))
    /\ sol_pc' = "done"
    /\ UNCHANGED <<sol_token_ids, sol_requests, sol_response>>
    /\ UNCHANGED notSolanaVars

SolNext == SolPost \/ NodeAnswers \/ SolTransportFails \/ SolReturn

(***************************************************************************)
(* EVM token balances through one Multicall3 aggregate3 eth_call           *)
(***************************************************************************)

EVMChains == {"ethereum", "polygon"}
Tokens == {"0xA", "0xB"}
Holder == "0xholder"
BALANCE_OF_SELECTOR == "0x70a08231"

RECURSIVE Pow256(_)
Pow256(n) == IF n = 0 THEN 1 ELSE 256 * Pow256(n - 1)

\* the balances a token contract may hold for the address: the extremes of
\* every byte position of the return word
HeldBalances == {0, 1, 255, 256, Pow256(WordBytes) - 1}

\* abi encoding of a uint: the big-endian bytes of the word, zero padded
be_encode(n, width) == [i \in 1..width |-> (n \div Pow256(width - i)) % 256]

\* decoding of the return word as a big-endian unsigned integer
RECURSIVE be_decode(_)
be_decode(bytes) ==
    IF bytes = <<>> THEN 0
    ELSE bytes[1] * Pow256(Len(bytes) - 1) + be_decode(Tail(bytes))

\* batch_token_balance_calls: one balanceOf(address) call per token id,
\* allowed to fail, in the order of token_ids
balance_of_calls(address, token_ids) ==
    [i \in 1..Len(token_ids) |->
        [target |-> token_ids[i], allowFailure |-> TRUE,
         callData |-> <<BALANCE_OF_SELECTOR, address>>]]

\* Multicall3.aggregate3: the i-th tuple is the outcome of the i-th call
aggregate3(batch, holdings) ==
    [i \in 1..Len(batch) |->
        IF holdings[i].success
        THEN [success |-> TRUE, returnData |-> be_encode(holdings[i].balance, WordBytes)]
        ELSE [success |-> FALSE, returnData |-> <<>>]]

\* map_balance_tokens(balance_results, token_ids, chain): zero for a failed
\* call, the decoded word for a successful one, zipped with token_ids
map_balance_tokens(balance_results, token_ids, chain) ==
    [i \in 1..Min(Len(balance_results), Len(token_ids)) |->
        [asset_id |-> [chain |-> chain, token_id |-> token_ids[i]],
         available |-> IF balance_results[i].success
                       THEN be_decode(balance_results[i].returnData)
                       ELSE 0]]

Reverse(seq) == [i \in 1..Len(seq) |-> seq[Len(seq) + 1 - i]]

\* get_balance_tokens handing the token ids over in the opposite order
evm_get_balance_tokens_reversed(balance_results, token_ids, chain) ==
    map_balance_tokens(balance_results, Reverse(token_ids), chain)

\* EthereumClient::get_balance_tokens: map_balance_tokens(balance_results, token_ids, self.get_chain())
evm_get_balance_tokens(balance_results, token_ids, chain) ==
    map_balance_tokens(balance_results, token_ids, chain)

evmIdle ==
    /\ evm_chain = "ethereum"
    /\ evm_token_ids = <<>>
    /\ evm_calls = <<>>
    /\ evm_holdings = <<>>
    /\ evm_returned = <<>>
    /\ evm_result = NoResult
    /\ evm_pc = "idle"

\* get_balance_tokens(address, token_ids) is called
EvmInit ==
    /\ evm_chain \in EVMChains
    /\ evm_token_ids \in UNION {[1..n -> Tokens] : n \in 0..MaxTokens}
    /\ evm_calls = <<>>
    /\ evm_holdings = <<>>
    /\ evm_returned = <<>>
    /\ evm_result = NoResult
    /\ evm_pc = "start"

\* batch_token_balance_calls: pack the calls and post one eth_call
EvmPost ==
    /\ evm_pc = "start"
    /\ evm_calls' = balance_of_calls(Holder, evm_token_ids)
    /\ evm_pc' = "posted"
    /\ UNCHANGED <<evm_chain, evm_token_ids, evm_holdings, evm_returned, evm_result>>
    /\ UNCHANGED notEvmVars

\* the node executes aggregate3: every balanceOf succeeds or fails by itself
EvmNodeExecutes ==
    /\ evm_pc = "posted"
    /\ \E holdings \in [1..Len(evm_calls) -> [success : BOOLEAN, balance : HeldBalances]] :
        /\ evm_holdings' = holdings
        /\ evm_returned' = aggregate3(evm_calls, holdings)
    /\ evm_pc' = "answered"
    /\ UNCHANGED <<evm_chain, evm_token_ids, evm_calls, evm_result>>
    /\ UNCHANGED notEvmVars

\* the eth_call itself fails: batch_token_balance_calls(..).await? returns the error
EvmCallFails ==
    /\ evm_pc = "posted"
    /\ evm_result' = Err("JsonRpcError")
    /\ evm_pc' = "done"
    /\ UNCHANGED <<evm_chain, evm_token_ids, evm_calls, evm_holdings, evm_returned>>
    /\ UNCHANGED notEvmVars

\* map_balance_tokens(balance_results, token_ids, self.get_chain())
EvmReturn ==
    /\ evm_pc = "answered"
    /\ evm_result' = Ok(evm_get_balance_tokens(evm_returned, evm_token_ids, evm_chain))
    /\ evm_pc' = "done"
    /\ UNCHANGED <<evm_chain, evm_token_ids, evm_calls, evm_holdings, evm_returned>>
    /\ UNCHANGED notEvmVars

EvmNext == EvmPost \/ EvmNodeExecutes \/ EvmCallFails \/ EvmReturn

(***************************************************************************)
(* settings_chain::ChainProviders and the api ChainClient                  *)
(***************************************************************************)

Chain == {"Ethereum", "SmartChain", "Arbitrum", "Polygon"}

\* Chain::as_ref (strum serialize_all = "lowercase")
as_ref(chain) ==
    CASE chain = "Ethereum" -> "ethereum"
      [] chain = "SmartChain" -> "smartchain"
      [] chain = "Arbitrum" -> "arbitrum"
      [] chain = "Polygon" -> "polygon"

\* format!("Provider for chain {} not found", chain.as_ref())
provider_not_found(chain) == <<"Provider for chain ", as_ref(chain), " not found">>

\* a lookup that takes the first provider of the list whatever its chain
get_provider_ignores_chain(list, chain) == IF list = <<>> THEN 0 ELSE 1

\* ChainProviders::get_provider: providers.iter().find(|x| x.get_chain() == chain)
get_provider(list, chain) ==
    LET found == {i \in 1..Len(list) : list[i] = chain}
    IN  IF found = {} THEN 0 ELSE CHOOSE i \in found : \A j \in found : i <= j

RegistryOps == {"get_balance_coin", "get_balance_tokens", "get_balance_assets", "get_balance_staking"}
ClientOps == {"get_balances_coin", "get_balances_staking", "get_balances_assets"}

\* ChainClient: the ChainProviders operation each facade method calls
chain_client_calls(op) ==
    CASE op = "get_balances_coin" -> "get_balance_coin"
      [] op = "get_balances_staking" -> "get_balance_staking"
      [] op = "get_balances_assets" -> "get_balance_assets"

registry_op(entry) ==
    IF entry.layer = "ChainClient" THEN chain_client_calls(entry.op) ELSE entry.op

\* a registry whose staking operation asks the provider for its assets
provider_method_staking_slip(op) ==
    CASE op = "get_balance_coin" -> "get_balance_coin"
      [] op = "get_balance_tokens" -> "get_balance_tokens"
      [] op = "get_balance_assets" -> "get_balance_assets"
      [] op = "get_balance_staking" -> "get_balance_assets"

\* ChainProviders: the provider method each operation calls
provider_method(op) ==
    CASE op = "get_balance_coin" -> "get_balance_coin"
      [] op = "get_balance_tokens" -> "get_balance_tokens"
      [] op = "get_balance_assets" -> "get_balance_assets"
      [] op = "get_balance_staking" -> "get_balance_staking"

ProviderOutcomes == {Ok("balance1"), Ok("balance2"), Err("upstream error")}

regIdle ==
    /\ providers = <<>>
    /\ reg_entry = [layer |-> "ChainProviders", op |-> "get_balance_coin"]
    /\ reg_chain = "Ethereum"
    /\ reg_selected = 0
    /\ provider_log = <<>>
    /\ provider_out = NoResult
    /\ reg_result = NoResult
    /\ reg_pc = "idle"

\* ChainProviders::new(providers), then one operation is called
RegInit ==
    /\ providers \in UNION {[1..n -> Chain] : n \in 0..MaxProviders}
    /\ reg_entry \in {[layer |-> "ChainProviders", op |-> o] : o \in RegistryOps}
                        \cup {[layer |-> "ChainClient", op |-> o] : o \in ClientOps}
    /\ reg_chain \in Chain
    /\ reg_selected = 0
    /\ provider_log = <<>>
    /\ provider_out = NoResult
    /\ reg_result = NoResult
    /\ reg_pc = "start"

\* self.get_provider(chain)? fails: the operation returns the error
RegNotFound ==
    /\ reg_pc = "start"
    /\ get_provider(providers, reg_chain) = 0
    /\ reg_result' = Err(provider_not_found(reg_chain))
    /\ reg_pc' = "done"
    /\ UNCHANGED <<providers, reg_entry, reg_chain, reg_selected, provider_log, provider_out>>
    /\ UNCHANGED notRegistryVars

\* self.get_provider(chain)?.<method>(..): the method of the provider is called
RegDispatch ==
    /\ reg_pc = "start"
    /\ get_provider(providers, reg_chain) # 0
    /\ reg_selected' = get_provider(providers, reg_chain)
    /\ provider_log' = Append(provider_log,
                              [provider |-> get_provider(providers, reg_chain),
                               method |-> provider_method(registry_op(reg_entry))])
    /\ reg_pc' = "awaiting"
    /\ UNCHANGED <<providers, reg_entry, reg_chain, provider_out, reg_result>>
    /\ UNCHANGED notRegistryVars

\* .await: the provider's result is the result of the operation
RegReturn ==
    /\ reg_pc = "awaiting"
    /\ \E out \in ProviderOutcomes :
        /\ provider_out' = out
        /\ reg_result' = out
    /\ reg_pc' = "done"
    /\ UNCHANGED <<providers, reg_entry, reg_chain, reg_selected, provider_log>>
    /\ UNCHANGED notRegistryVars

RegNext == RegNotFound \/ RegDispatch \/ RegReturn

(***************************************************************************)
(* Ethereum staking: Everstake account state, delegations, staking balance *)
(***************************************************************************)

\* DelegationState
DelegationState == {"Active", "Activating", "Deactivating", "AwaitingWithdrawal", "Pending", "Undelegating"}

StakeAmounts == 0..MaxStake
Epochs == 0..2

\* one entry of withdraw_request: the amount and the epoch it unlocks at
WithdrawRequests ==
    UNION {[1..n -> [amount : 1..MaxStake, unlock_epoch : Epochs]] : n \in 0..MaxWithdrawRequests}

\* what get_everstake_account_state decodes from the pool's contract call
AccountStates ==
    [deposited_balance : StakeAmounts,
     restaked_reward : 0..1,
     pending_balance : 0..1,
     pending_deposited_balance : 0..1,
     withdraw_request : WithdrawRequests]

\* map_balance_to_delegation(balance, rewards, state)
map_balance_to_delegation(balance, rw, state) ==
    [state |-> state, balance |-> balance, rewards |-> rw]

\* map_withdraw_request_to_delegations: one delegation per entry,
\* AwaitingWithdrawal if its unlock epoch >= the current one, else Deactivating
map_withdraw_request_to_delegations(withdraw_request) ==
    [i \in 1..Len(withdraw_request) |->
        map_balance_to_delegation(
            withdraw_request[i].amount, 0,
            IF withdraw_request[i].unlock_epoch >= current_epoch
            THEN "AwaitingWithdrawal" ELSE "Deactivating")]

\* a derivation that counts only pending_balance as activating
get_ethereum_delegations_pending_only(state) ==
    (IF state.deposited_balance > 0
     THEN <<map_balance_to_delegation(state.deposited_balance, state.restaked_reward, "Active")>>
     ELSE <<>>)
    \o (IF state.pending_balance > 0
        THEN <<map_balance_to_delegation(state.pending_balance, 0, "Activating")>>
        ELSE <<>>)
    \o map_withdraw_request_to_delegations(state.withdraw_request)

\* EthereumClient::get_ethereum_delegations, after the account state is read
get_ethereum_delegations(state) ==
    LET active_balance == state.deposited_balance
        pending_balance == state.pending_balance + state.pending_deposited_balance
    IN  (IF active_balance > 0
         THEN <<map_balance_to_delegation(active_balance, state.restaked_reward, "Active")>>
         ELSE <<>>)
        \o (IF pending_balance > 0
            THEN <<map_balance_to_delegation(pending_balance, 0, "Activating")>>
            ELSE <<>>)
        \o map_withdraw_request_to_delegations(state.withdraw_request)

\* a match whose pending arm also collects the rewards
stake_match_rewards_everywhere(acc, delegation) ==
    CASE delegation.state = "Active" ->
            [staked |-> acc.staked + delegation.balance,
             rewards |-> acc.rewards + delegation.rewards,
             pending |-> acc.pending]
      [] delegation.state \in {"Activating", "Deactivating", "AwaitingWithdrawal"} ->
            [staked |-> acc.staked,
             rewards |-> acc.rewards + delegation.rewards,
             pending |-> acc.pending + delegation.balance]
      [] OTHER -> acc

\* get_ethereum_staking_balance: match delegation.state { ... } on the accumulators
stake_match(acc, delegation) ==
    CASE delegation.state = "Active" ->
            [staked |-> acc.staked + delegation.balance,
             rewards |-> acc.rewards + delegation.rewards,
             pending |-> acc.pending]
      [] delegation.state \in {"Activating", "Deactivating", "AwaitingWithdrawal"} ->
            [staked |-> acc.staked,
             rewards |-> acc.rewards,
             pending |-> acc.pending + delegation.balance]
      [] OTHER -> acc

\* Balance::stake_balance_with_metadata(staked, pending, rewards, metadata)
stake_balance_with_metadata(st, pe, rw, metadata) ==
    [available |-> 0, frozen |-> 0, locked |-> 0,
     staked |-> st, pending |-> pe,
     rewards |-> IF rw.tag = "Some" THEN rw.value ELSE 0,
     reserved |-> 0, withdrawable |-> 0, metadata |-> metadata]

\* Option
Some(v) == [tag |-> "Some", value |-> v]
None == [tag |-> "None"]

\* Balance::stake_balance(staked, pending, rewards)
stake_balance(st, pe, rw) == stake_balance_with_metadata(st, pe, rw, None)

\* AssetBalance::new_balance(asset_id, balance)
new_balance(asset_id, balance) ==
    [asset_id |-> asset_id, balance |-> balance, is_active |-> TRUE]

\* AssetId::from_chain(chain)
from_chain(chain) == [chain |-> chain, token_id |-> None]

NoAccountState == [tag |-> "None"]

stakeIdle ==
    /\ account_state = NoAccountState
    /\ current_epoch = 0
    /\ delegations = <<>>
    /\ next_delegation = 0
    /\ staked = 0
    /\ rewards = 0
    /\ pending = 0
    /\ stake_result = NoResult
    /\ staking_chain = "ethereum"
    /\ staking_rpc_calls = 0
    /\ stake_pc = "idle"

\* get_ethereum_staking_balance(address) is called; the pool holds some
\* account state for the address, or the contract call will fail
StakeInit ==
    /\ account_state \in {Ok(s) : s \in AccountStates} \cup {Err("rpc error")}
    /\ current_epoch = 1
    /\ delegations = <<>>
    /\ next_delegation = 0
    /\ staked = 0
    /\ rewards = 0
    /\ pending = 0
    /\ stake_result = NoResult
    /\ staking_chain = "ethereum"
    /\ staking_rpc_calls = 0
    /\ stake_pc = "start"

\* the for loop is entered with a list of delegations
FoldInit ==
    /\ account_state = NoAccountState
    /\ current_epoch = 1
    /\ delegations \in UNION {[1..n -> [state : DelegationState, balance : StakeAmounts, rewards : 0..1]] :
                                n \in 0..MaxDelegations}
    /\ next_delegation = 1
    /\ staked = 0
    /\ rewards = 0
    /\ pending = 0
    /\ stake_result = NoResult
    /\ staking_chain = "ethereum"
    /\ staking_rpc_calls = 0
    /\ stake_pc = "fold"

\* self.get_ethereum_delegations(address).await? fails: the error is returned
StakeStateFails ==
    /\ stake_pc = "start"
    /\ account_state.tag = "Err"
    /\ stake_result' = account_state
    /\ staking_rpc_calls' = staking_rpc_calls + 1
    /\ stake_pc' = "done"
    /\ UNCHANGED <<account_state, current_epoch, delegations, next_delegation, staked, rewards, pending, staking_chain>>
    /\ UNCHANGED notStakingVars

\* let delegations = self.get_ethereum_delegations(address).await?; the accumulators start at zero
StakeDelegations ==
    /\ stake_pc = "start"
    /\ account_state.tag = "Ok"
    /\ delegations' = get_ethereum_delegations(account_state.value)
    /\ next_delegation' = 1
    /\ staked' = 0
    /\ rewards' = 0
    /\ pending' = 0
    /\ staking_rpc_calls' = staking_rpc_calls + 1
    /\ stake_pc' = "fold"
    /\ UNCHANGED <<account_state, current_epoch, stake_result, staking_chain>>
    /\ UNCHANGED notStakingVars

\* one iteration of for delegation in &delegations
StakeFold ==
    /\ stake_pc = "fold"
    /\ next_delegation <= Len(delegations)
    /\ LET acc == stake_match([staked |-> staked, rewards |-> rewards, pending |-> pending],
                              delegations[next_delegation])
       IN  /\ staked' = acc.staked
           /\ rewards' = acc.rewards
           /\ pending' = acc.pending
    /\ next_delegation' = next_delegation + 1
    /\ UNCHANGED <<account_state, current_epoch, delegations, stake_result, staking_chain, staking_rpc_calls, stake_pc>>
    /\ UNCHANGED notStakingVars

\* Ok(Some(AssetBalance::new_balance(AssetId::from_chain(Chain::Ethereum), balance)))
StakeReturn ==
    /\ stake_pc = "fold"
    /\ next_delegation > Len(delegations)
    /\ stake_result' = Ok(Some(new_balance(from_chain("Ethereum"),
                                           stake_balance(staked, pending, Some(rewards)))))
    /\ stake_pc' = "done"
    /\ UNCHANGED <<account_state, current_epoch, delegations, next_delegation, staked, rewards, pending, staking_chain, staking_rpc_calls>>
    /\ UNCHANGED notStakingVars

StakeNext == StakeStateFails \/ StakeDelegations \/ StakeFold \/ StakeReturn

FoldNext == StakeFold \/ StakeReturn

\* EVMChain::all()
EVMChain_all == {"ethereum", "smartchain", "polygon", "arbitrum"}

\* a dispatch that reads the Everstake pool on every chain
get_balance_staking_every_chain(chain) ==
    IF chain = "smartchain" THEN "get_smartchain_staking_balance" ELSE "get_ethereum_staking_balance"

\* get_balance_staking: match self.chain { Ethereum => ..., SmartChain => ..., _ => Ok(None) }
get_balance_staking(chain) ==
    CASE chain = "ethereum" -> "get_ethereum_staking_balance"
      [] chain = "smartchain" -> "get_smartchain_staking_balance"
      [] OTHER -> "None"

\* what the BNB staking contract holds for the delegator: the balances of
\* its delegations
SmartChainDelegations == UNION {[1..n -> 1..MaxStake] : n \in 0..MaxDelegations}

\* get_smartchain_staking_balance: the balances of the delegations summed;
\* None when there are no delegations
get_smartchain_staking_balance(ds) ==
    IF ds = <<>> THEN None
    ELSE Some(new_balance(from_chain("SmartChain"), stake_balance(Sum(ds), 0, None)))

\* get_balance_staking(address) is called on the client of some EVM chain
BalanceStakingInit ==
    /\ account_state \in {Ok(acc) : acc \in AccountStates} \cup {Err("rpc error")}
    /\ current_epoch = 1
    /\ delegations = <<>>
    /\ next_delegation = 0
    /\ staked = 0
    /\ rewards = 0
    /\ pending = 0
    /\ stake_result = NoResult
    /\ staking_chain \in EVMChain_all
    /\ staking_rpc_calls = 0
    /\ stake_pc = "dispatch"

\* EVMChain::Ethereum => self.get_ethereum_staking_balance(&address).await
StakeDispatchEthereum ==
    /\ stake_pc = "dispatch"
    /\ get_balance_staking(staking_chain) = "get_ethereum_staking_balance"
    /\ stake_pc' = "start"
    /\ UNCHANGED <<account_state, current_epoch, delegations, next_delegation, staked, rewards, pending,
                   stake_result, staking_chain, staking_rpc_calls>>
    /\ UNCHANGED notStakingVars

\* EVMChain::SmartChain => self.get_smartchain_staking_balance(&address).await
StakeDispatchSmartChain ==
    /\ stake_pc = "dispatch"
    /\ get_balance_staking(staking_chain) = "get_smartchain_staking_balance"
    /\ \E answer \in {Ok(ds) : ds \in SmartChainDelegations} \cup {Err("rpc error")} :
        stake_result' = IF answer.tag = "Err" THEN answer
                        ELSE Ok(get_smartchain_staking_balance(answer.value))
    /\ staking_rpc_calls' = staking_rpc_calls + 1
    /\ stake_pc' = "done"
    /\ UNCHANGED <<account_state, current_epoch, delegations, next_delegation, staked, rewards, pending,
                   staking_chain>>
    /\ UNCHANGED notStakingVars

\* _ => Ok(None)
StakeDispatchOther ==
    /\ stake_pc = "dispatch"
    /\ get_balance_staking(staking_chain) = "None"
    /\ stake_result' = Ok(None)
    /\ stake_pc' = "done"
    /\ UNCHANGED <<account_state, current_epoch, delegations, next_delegation, staked, rewards, pending,
                   staking_chain, staking_rpc_calls>>
    /\ UNCHANGED notStakingVars

BalanceStakingNext ==
    \/ StakeDispatchEthereum
    \/ StakeDispatchSmartChain
    \/ StakeDispatchOther
    \/ StakeStateFails
    \/ StakeDelegations
    \/ StakeFold
    \/ StakeReturn

(***************************************************************************)
(* EVM asset portfolio through the Ankr client                             *)
(***************************************************************************)

\* TokenBalance { contract_address, balance_raw_integer }
TokenBalance(contract_address, balance_raw_integer) ==
    [contract_address |-> contract_address, balance_raw_integer |-> balance_raw_integer]

ContractAddresses == {None, Some("0xA"), Some("0xB")}
RawBalances == {0, 1, 100}

\* TokenBalances { assets }
TokenBalances ==
    UNION {[1..n -> {TokenBalance(a, b) : a \in ContractAddresses, b \in RawBalances}] : n \in 0..MaxAssets}

\* a filter that keeps a token without contract address under the empty address
assets_with_contract_address_or_default(assets) ==
    [i \in 1..Len(assets) |->
        <<IF assets[i].contract_address.tag = "Some" THEN assets[i].contract_address.value ELSE "",
          assets[i].balance_raw_integer>>]

\* .assets.into_iter().filter_map(|asset| asset.contract_address.map(|addr| (addr, asset.balance_raw_integer))).collect()
RECURSIVE assets_with_contract_address(_)
assets_with_contract_address(assets) ==
    IF assets = <<>> THEN <<>>
    ELSE (IF assets[1].contract_address.tag = "Some"
          THEN <<<<assets[1].contract_address.value, assets[1].balance_raw_integer>>>>
          ELSE <<>>)
         \o assets_with_contract_address(Tail(assets))

\* Balance::coin_balance(available)
coin_balance(available) ==
    [available |-> available, frozen |-> 0, locked |-> 0, staked |-> 0, pending |-> 0,
     rewards |-> 0, reserved |-> 0, withdrawable |-> 0, metadata |-> None]

\* AssetBalance::new(asset_id, balance)
AssetBalance_new(asset_id, balance) ==
    [asset_id |-> asset_id, balance |-> coin_balance(balance), is_active |-> TRUE]

\* map_assets_balances(balances, chain): one AssetBalance per pair with a
\* non-zero balance, in the order of the pairs
RECURSIVE map_assets_balances(_, _)
map_assets_balances(balances, chain) ==
    IF balances = <<>> THEN <<>>
    ELSE (IF balances[1][2] > 0
          THEN <<AssetBalance_new([chain |-> chain, token_id |-> Some(balances[1][1])], balances[1][2])>>
          ELSE <<>>)
         \o map_assets_balances(Tail(balances), chain)

assetIdle ==
    /\ assets_chain = "none"
    /\ ankr_client = "None"
    /\ ankr_answer = NoResult
    /\ ankr_requests = 0
    /\ assets_result = NoResult
    /\ assets_pc = "idle"

\* get_balance_assets(address) is called on an EthereumClient built with or
\* without an Ankr client; the Ankr endpoint holds some answer for the address
AssetsInit ==
    /\ assets_chain \in EVMChains
    /\ ankr_client \in {"Some", "None"}
    /\ ankr_answer \in {Ok(t) : t \in TokenBalances} \cup {Err("ankr error")}
    /\ ankr_requests = 0
    /\ assets_result = NoResult
    /\ assets_pc = "start"

\* no Ankr client: Ok(vec![])
AssetsWithoutAnkr ==
    /\ assets_pc = "start"
    /\ ankr_client = "None"
    /\ assets_result' = Ok(<<>>)
    /\ assets_pc' = "done"
    /\ UNCHANGED <<assets_chain, ankr_client, ankr_answer, ankr_requests>>
    /\ UNCHANGED notAssetsVars

\* if let Some(ankr_client) = &self.ankr_client: ankr_client.get_token_balances(address)
AssetsRequest ==
    /\ assets_pc = "start"
    /\ ankr_client = "Some"
    /\ ankr_requests' = ankr_requests + 1
    /\ assets_pc' = "requested"
    /\ UNCHANGED <<assets_chain, ankr_client, ankr_answer, assets_result>>
    /\ UNCHANGED notAssetsVars

\* .await? on a failed request: the error is returned
AssetsRequestFails ==
    /\ assets_pc = "requested"
    /\ ankr_answer.tag = "Err"
    /\ assets_result' = ankr_answer
    /\ assets_pc' = "done"
    /\ UNCHANGED <<assets_chain, ankr_client, ankr_answer, ankr_requests>>
    /\ UNCHANGED notAssetsVars

\* return Ok(map_assets_balances(balances, self.get_chain()))
AssetsReturn ==
    /\ assets_pc = "requested"
    /\ ankr_answer.tag = "Ok"
    /\ assets_result' = Ok(map_assets_balances(assets_with_contract_address(ankr_answer.value), assets_chain))
    /\ assets_pc' = "done"
    /\ UNCHANGED <<assets_chain, ankr_client, ankr_answer, ankr_requests>>
    /\ UNCHANGED notAssetsVars

AssetsNext == AssetsWithoutAnkr \/ AssetsRequest \/ AssetsRequestFails \/ AssetsReturn

(***************************************************************************)
(* The api service: routes over one managed Mutex<ChainClient>             *)
(***************************************************************************)

Requests == 1..MaxRequests
Routes == {"get_balances_coin", "get_balances_assets", "get_balances_staking"}
ChainSegments == {"ethereum", "polygon", "dogecoin"}
UpstreamOutcomes == {Ok("balance"), Err("upstream error")}

\* Chain::from_str (strum EnumString, serialize_all = "lowercase")
Chain_from_str(param) ==
    IF \E c \in Chain : as_ref(c) = param
    THEN Ok(CHOOSE c \in Chain : as_ref(c) = param)
    ELSE Err("VariantNotFound")

\* ChainParam::from_param: Chain::from_str(param).map(ChainParam).map_err(|_| param)
from_param(param) ==
    IF Chain_from_str(param).tag = "Ok" THEN Chain_from_str(param) ELSE Err(param)

\* enum ApiError
ApiError(variant, msg) == [variant |-> variant, msg |-> msg]

\* impl From<Box<dyn Error + Send + Sync>> for ApiError
ApiError_from(error) == ApiError("InternalServerError", <<"Service error: ", error>>)

\* impl Responder for ApiError: the status of the variant and the error envelope
ApiError_respond_to(api_error) ==
    [status |-> CASE api_error.variant = "BadRequest" -> 400
                  [] api_error.variant = "NotFound" -> 404
                  [] api_error.variant = "InternalServerError" -> 500,
     body |-> [success |-> FALSE, data |-> None, error |-> Some(api_error.msg)]]

\* impl From<T> for ApiResponse<T>, impl Responder for ApiResponse<T>
ApiResponse_respond_to(data) ==
    [status |-> 200,
     body |-> [success |-> TRUE, data |-> Some(data), error |-> None]]

\* the answer to a request whose chain segment is not a chain tag
bad_chain_response(param) ==
    ApiError_respond_to(ApiError("BadRequest", <<"unknown chain: ", param>>))

NoResponse == [status |-> 0, body |-> None]

apiIdle ==
    /\ api_providers = <<>>
    /\ api_request = <<>>
    /\ api_pc = <<>>
    /\ mutex = 0
    /\ api_response = <<>>

\* rocket_api: the ChainClient is built from the settings and managed behind
\* a Mutex; MaxRequests requests are then received
ApiInit ==
    /\ api_providers \in {<<"Ethereum">>, <<"Ethereum", "SmartChain">>}
    /\ api_request \in [Requests -> [route : Routes, chain : ChainSegments, upstream : UpstreamOutcomes]]
    /\ api_pc = [r \in Requests |-> "new"]
    /\ mutex = 0
    /\ api_response = [r \in Requests |-> NoResponse]

\* the chain segment is not a chain tag: the request is answered at once
ApiBadChain(r) ==
    /\ api_pc[r] = "new"
    /\ from_param(api_request[r].chain).tag = "Err"
    /\ api_response' = [api_response EXCEPT ![r] = bad_chain_response(api_request[r].chain)]
    /\ api_pc' = [api_pc EXCEPT ![r] = "done"]
    /\ UNCHANGED <<api_providers, api_request, mutex>>
    /\ UNCHANGED notApiVars

\* the chain segment parses: the route handler starts and asks for the lock
ApiRoute(r) ==
    /\ api_pc[r] = "new"
    /\ from_param(api_request[r].chain).tag = "Ok"
    /\ api_pc' = [api_pc EXCEPT ![r] = "routed"]
    /\ UNCHANGED <<api_providers, api_request, mutex, api_response>>
    /\ UNCHANGED notApiVars

\* Mutex::lock().await completes: the handler holds the guard of the ChainClient
ApiLock(r) ==
    /\ api_pc[r] = "routed"
    /\ mutex = 0
    /\ mutex' = r
    /\ api_pc' = [api_pc EXCEPT ![r] = "locked"]
    /\ UNCHANGED <<api_providers, api_request, api_response>>
    /\ UNCHANGED notApiVars

\* ChainClient -> ChainProviders::get_provider fails: the error converts into
\* an ApiError, the guard is dropped and the error is answered
ApiNoProvider(r) ==
    /\ api_pc[r] = "locked"
    /\ get_provider(api_providers, from_param(api_request[r].chain).value) = 0
    /\ api_response' =
        [api_response EXCEPT ![r] =
            ApiError_respond_to(ApiError_from(provider_not_found(from_param(api_request[r].chain).value)))]
    /\ mutex' = 0
    /\ api_pc' = [api_pc EXCEPT ![r] = "done"]
    /\ UNCHANGED <<api_providers, api_request>>
    /\ UNCHANGED notApiVars

\* the provider is found and its RPC call is awaited, the guard still held
ApiCallUpstream(r) ==
    /\ api_pc[r] = "locked"
    /\ get_provider(api_providers, from_param(api_request[r].chain).value) # 0
    /\ api_pc' = [api_pc EXCEPT ![r] = "upstream"]
    /\ UNCHANGED <<api_providers, api_request, mutex, api_response>>
    /\ UNCHANGED notApiVars

\* the upstream call completes: the guard is dropped and the result answered
ApiUpstreamReturns(r) ==
    /\ api_pc[r] = "upstream"
    /\ api_response' =
        [api_response EXCEPT ![r] =
            IF api_request[r].upstream.tag = "Ok"
            THEN ApiResponse_respond_to(api_request[r].upstream.value)
            ELSE ApiError_respond_to(ApiError_from(api_request[r].upstream.error))]
    /\ mutex' = 0
    /\ api_pc' = [api_pc EXCEPT ![r] = "done"]
    /\ UNCHANGED <<api_providers, api_request>>
    /\ UNCHANGED notApiVars

ApiNext ==
    \E r \in Requests :
        \/ ApiBadChain(r)
        \/ ApiRoute(r)
        \/ ApiLock(r)
        \/ ApiNoProvider(r)
        \/ ApiCallUpstream(r)
        \/ ApiUpstreamReturns(r)

(***************************************************************************)
(* BigUint serde helpers and the JSON form of Balance and AssetBalance     *)
(***************************************************************************)
\* a panic of the thread
Panic == [tag |-> "Panic"]

\* JSON values
json_str(text) == [json |-> "string", text |-> text]
json_number(n) == [json |-> "number", number |-> n]
json_bool(b) == [json |-> "bool", bool |-> b]
json_null == [json |-> "null"]
json_object(fields) == [json |-> "object", fields |-> fields]

Digits == <<"0", "1", "2", "3", "4", "5", "6", "7", "8", "9", "a", "b", "c", "d", "e", "f">>

\* char::from_digit(d, radix)
from_digit(d) == Digits[d + 1]

\* the value of a character as num-bigint's from_str_radix reads it:
\* 0-9, a-z and A-Z are digits of base 36, anything else is no digit
to_digit(c) ==
    IF \E i \in 1..16 : Digits[i] = c THEN (CHOOSE i \in 1..16 : Digits[i] = c) - 1
    ELSE CASE c = "A" -> 10 [] c = "F" -> 15
           [] c = "x" -> 33 [] c = "y" -> 34 [] c = "z" -> 35
           [] OTHER -> 255

\* BigUint::to_str_radix(radix); to_string() is to_str_radix(10)
RECURSIVE to_str_radix(_, _)
to_str_radix(n, radix) ==
    IF n < radix THEN <<from_digit(n)>>
    ELSE to_str_radix(n \div radix, radix) \o <<from_digit(n % radix)>>

\* the number a sequence of digit characters denotes in a radix
RECURSIVE digits_value(_, _)
digits_value(ds, radix) ==
    IF ds = <<>> THEN 0
    ELSE digits_value(SubSeq(ds, 1, Len(ds) - 1), radix) * radix + to_digit(ds[Len(ds)])

\* BigUint::from_str_radix(s, radix): one leading '+' is allowed, the empty
\* string and a leading '_' are errors, other '_' are skipped, every other
\* character must be a digit of the radix
from_str_radix(str, radix) ==
    LET t == IF Len(str) > 0 /\ str[1] = "+" /\ ~(Len(str) > 1 /\ str[2] = "+")
             THEN Tail(str) ELSE str
        ds == SelectSeq(t, LAMBDA c : c # "_")
    IN  IF t = <<>> THEN Err("ParseBigIntError: empty")
        ELSE IF t[1] = "_" \/ \E i \in 1..Len(ds) : to_digit(ds[i]) >= radix
             THEN Err("ParseBigIntError: invalid digit")
             ELSE Ok(digits_value(ds, radix))

\* a serializer that hands the integer to JSON as a number
serialize_biguint_as_number(value) == json_number(value)

\* serialize_biguint: serializer.serialize_str(&value.to_string())
serialize_biguint(value) == json_str(to_str_radix(value, 10))

\* serialize_biguint_to_hex_str: format!("0x{}", value.to_str_radix(16))
serialize_biguint_to_hex_str(value) == json_str(<<"0", "x">> \o to_str_radix(value, 16))

\* serialize_option_biguint
serialize_option_biguint(value) ==
    IF value.tag = "Some" THEN json_str(to_str_radix(value.value, 10)) ELSE json_null

\* String::deserialize(deserializer)
String_deserialize(j) ==
    IF j.json = "string" THEN Ok(j.text) ELSE Err("invalid type: expected a string")

\* Option::<String>::deserialize(deserializer)
Option_String_deserialize(j) ==
    IF j.json = "null" THEN Ok(None)
    ELSE IF j.json = "string" THEN Ok(Some(j.text))
    ELSE Err("invalid type: expected a string")

\* deserialize_biguint_from_str: s.parse::<BigUint>().map_err(custom)
deserialize_biguint_from_str(j) ==
    LET s == String_deserialize(j)
    IN  IF s.tag = "Err" THEN s ELSE from_str_radix(s.value, 10)

\* deserialize_option_biguint_from_str
deserialize_option_biguint_from_str(j) ==
    LET s == Option_String_deserialize(j)
    IN  IF s.tag = "Err" THEN s
        ELSE IF s.value = None THEN Ok(None)
        ELSE LET parsed == from_str_radix(s.value.value, 10)
             IN  IF parsed.tag = "Ok" THEN Ok(Some(parsed.value)) ELSE parsed

\* &s[2..]: the string from byte 2 on; panics when the string is shorter
slice_from_2(str) ==
    IF Len(str) < 2 THEN Panic ELSE Ok(SubSeq(str, 3, Len(str)))

\* deserialize_biguint_from_hex_str: BigUint::from_str_radix(&s[2..], 16)
deserialize_biguint_from_hex_str(j) ==
    LET s == String_deserialize(j)
    IN  IF s.tag = "Err" THEN s
        ELSE IF slice_from_2(s.value) = Panic THEN Panic
        ELSE from_str_radix(slice_from_2(s.value).value, 16)

\* deserialize_biguint_from_option_hex_str
deserialize_biguint_from_option_hex_str(j) ==
    LET s == Option_String_deserialize(j)
    IN  IF s.tag = "Err" THEN s
        ELSE IF s.value = None THEN Ok(None)
        ELSE IF slice_from_2(s.value.value) = Panic THEN Panic
        ELSE LET parsed == from_str_radix(slice_from_2(s.value.value).value, 16)
             IN  IF parsed.tag = "Ok" THEN Ok(Some(parsed.value)) ELSE parsed

\* str::strip_prefix("0x").unwrap_or(str)
strip_prefix_0x(str) ==
    IF Len(str) >= 2 /\ str[1] = "0" /\ str[2] = "x" THEN SubSeq(str, 3, Len(str)) ELSE str

\* biguint_from_hex_str(hex_str)
biguint_from_hex_str(hex_str) == from_str_radix(strip_prefix_0x(hex_str), 16)

NumericSlots == {"available", "frozen", "locked", "staked", "pending", "rewards", "reserved", "withdrawable"}
MetadataFields == {"votes", "energyAvailable", "energyTotal", "bandwidthAvailable", "bandwidthTotal"}

\* #[derive(Serialize)] for BalanceMetadata: five u32 as JSON numbers
BalanceMetadata_serialize(m) == json_object([f \in MetadataFields |-> json_number(m[f])])

\* #[derive(Deserialize)] for BalanceMetadata
BalanceMetadata_deserialize(j) ==
    IF j.json # "object" \/ \E f \in MetadataFields : j.fields[f].json # "number"
    THEN Err("invalid type")
    ELSE Ok([f \in MetadataFields |-> j.fields[f].number])

\* #[derive(Serialize)] for Balance: serialize_biguint on the eight numeric
\* slots, the derived Option serializer on metadata
Balance_serialize(b) ==
    json_object([f \in NumericSlots \cup {"metadata"} |->
        IF f \in NumericSlots THEN serialize_biguint(b[f])
        ELSE IF b.metadata = None THEN json_null
        ELSE BalanceMetadata_serialize(b.metadata.value)])

\* #[derive(Deserialize)] for Balance: deserialize_biguint_from_str on the
\* eight numeric slots
Balance_deserialize(j) ==
    IF j.json # "object" THEN Err("invalid type")
    ELSE LET slot == [f \in NumericSlots |-> deserialize_biguint_from_str(j.fields[f])]
             metadata == IF j.fields["metadata"].json = "null" THEN Ok(None)
                         ELSE LET m == BalanceMetadata_deserialize(j.fields["metadata"])
                              IN  IF m.tag = "Ok" THEN Ok(Some(m.value)) ELSE m
         IN  IF \E f \in NumericSlots : slot[f].tag = "Err"
             THEN slot[CHOOSE f \in NumericSlots : slot[f].tag = "Err"]
             ELSE IF metadata.tag = "Err" THEN metadata
             ELSE Ok([f \in NumericSlots \cup {"metadata"} |->
                        IF f \in NumericSlots THEN slot[f].value ELSE metadata.value])

Wire_ethereum == <<"e", "t", "h", "e", "r", "e", "u", "m">>
Wire_solana == <<"s", "o", "l", "a", "n", "a">>
Token_a == <<"0", "x", "a">>
Token_b_c == <<"b", "_", "c">>

\* the wire form of an AssetId: chain, or chain_tokenId
AssetId_to_string(id) ==
    IF id.token_id = None THEN id.chain ELSE id.chain \o <<"_">> \o id.token_id.value

\* an AssetId read from its wire form: the chain up to the first '_', the
\* token id after it
AssetId_new(str) ==
    IF \E i \in 1..Len(str) : str[i] = "_"
    THEN LET i == CHOOSE k \in 1..Len(str) : str[k] = "_" /\ \A m \in 1..(k - 1) : str[m] # "_"
         IN  [chain |-> SubSeq(str, 1, i - 1), token_id |-> Some(SubSeq(str, i + 1, Len(str)))]
    ELSE [chain |-> str, token_id |-> None]

\* #[derive(Serialize)] for AssetBalance, camelCase
AssetBalance_serialize(v) ==
    json_object([f \in {"assetId", "balance", "isActive"} |->
        CASE f = "assetId" -> json_str(AssetId_to_string(v.asset_id))
          [] f = "balance" -> Balance_serialize(v.balance)
          [] OTHER -> json_bool(v.is_active)])

\* #[derive(Deserialize)] for AssetBalance
AssetBalance_deserialize(j) ==
    IF j.json # "object" \/ j.fields["assetId"].json # "string" \/ j.fields["isActive"].json # "bool"
    THEN Err("invalid type")
    ELSE LET balance == Balance_deserialize(j.fields["balance"])
         IN  IF balance.tag = "Err" THEN balance
             ELSE Ok([asset_id |-> AssetId_new(j.fields["assetId"].text),
                      balance |-> balance.value,
                      is_active |-> j.fields["isActive"].bool])

IntegerCodecs == {"biguint_str", "biguint_hex_str", "biguint_from_hex_str"}
OptionCodecs == {"option_biguint_str", "option_hex_str"}
StructCodecs == {"Balance", "AssetBalance"}

\* the serializer of a codec
serde_serialize(codec, value) ==
    CASE codec = "biguint_str" -> serialize_biguint(value)
      [] codec = "option_biguint_str" -> serialize_option_biguint(value)
      [] codec = "biguint_hex_str" -> serialize_biguint_to_hex_str(value)
      [] codec = "biguint_from_hex_str" -> serialize_biguint_to_hex_str(value)
      [] codec = "option_hex_str" ->
            IF value = None THEN json_null ELSE serialize_biguint_to_hex_str(value.value)
      [] codec = "Balance" -> Balance_serialize(value)
      [] codec = "AssetBalance" -> AssetBalance_serialize(value)

\* the deserializer of a codec
serde_deserialize(codec, j) ==
    CASE codec = "biguint_str" -> deserialize_biguint_from_str(j)
      [] codec = "option_biguint_str" -> deserialize_option_biguint_from_str(j)
      [] codec = "biguint_hex_str" -> deserialize_biguint_from_hex_str(j)
      [] codec = "biguint_from_hex_str" -> biguint_from_hex_str(j.text)
      [] codec = "option_hex_str" -> deserialize_biguint_from_option_hex_str(j)
      [] codec = "Balance" -> Balance_deserialize(j)
      [] codec = "AssetBalance" -> AssetBalance_deserialize(j)

TextChars == {"0", "1", "a", "F", "x", "y", "z", "+", "_"}
RawTexts == UNION {[1..n -> TextChars] : n \in 0..MaxTextLen}
Texts == RawTexts \cup {<<"0", "x">> \o t : t \in RawTexts}

SlotValues == {0, 7, MaxBigUint}
BalanceMetadatas == {None, Some([f \in MetadataFields |-> IF f = "votes" THEN 3 ELSE 0])}
\* balances with at most two slots holding a non-zero value
Balances ==
    {[f \in NumericSlots \cup {"metadata"} |->
        IF f = "metadata" THEN m ELSE IF f = s1 THEN v1 ELSE IF f = s2 THEN v2 ELSE 0] :
        s1 \in NumericSlots, s2 \in NumericSlots, v1 \in SlotValues, v2 \in SlotValues,
        m \in BalanceMetadatas}
AssetIds == {[chain |-> c, token_id |-> t] :
                c \in {Wire_ethereum, Wire_solana}, t \in {None, Some(Token_a), Some(Token_b_c)}}
AssetBalances == {[asset_id |-> id, balance |-> b, is_active |-> a] :
                    id \in AssetIds, b \in {coin_balance(v) : v \in SlotValues}, a \in BOOLEAN}

serdeIdle ==
    /\ serde_codec = "none"
    /\ serde_value = None
    /\ serde_wire = json_null
    /\ serde_decoded = NoResult
    /\ serde_pc = "idle"

\* an integer is about to be serialized, or a text is about to be deserialized
SerdeInit ==
    /\ serde_decoded = NoResult
    /\ \/ /\ serde_codec \in IntegerCodecs
          /\ serde_value \in {Some(n) : n \in 0..MaxBigUint}
          /\ serde_wire = json_null
          /\ serde_pc = "encode"
       \/ /\ serde_codec \in OptionCodecs
          /\ serde_value \in {Some(None)} \cup {Some(Some(n)) : n \in 0..MaxBigUint}
          /\ serde_wire = json_null
          /\ serde_pc = "encode"
       \/ /\ serde_codec \in IntegerCodecs \cup OptionCodecs
          /\ serde_value = None
          /\ serde_wire \in {json_str(t) : t \in Texts}
          /\ serde_pc = "decode"

\* a Balance or an AssetBalance is about to be serialized
BalanceInit ==
    /\ serde_decoded = NoResult
    /\ serde_wire = json_null
    /\ serde_pc = "encode"
    /\ \/ serde_codec = "Balance" /\ serde_value \in {Some(b) : b \in Balances}
       \/ serde_codec = "AssetBalance" /\ serde_value \in {Some(b) : b \in AssetBalances}

\* serde_json::to_string(&value)
SerdeEncode ==
    /\ serde_pc = "encode"
    /\ serde_wire' = serde_serialize(serde_codec, serde_value.value)
    /\ serde_pc' = "decode"
    /\ UNCHANGED <<serde_codec, serde_value, serde_decoded>>
    /\ UNCHANGED notSerdeVars

\* serde_json::from_str(&text)
SerdeDecode ==
    /\ serde_pc = "decode"
    /\ serde_decoded' = serde_deserialize(serde_codec, serde_wire)
    /\ serde_pc' = "done"
    /\ UNCHANGED <<serde_codec, serde_value, serde_wire>>
    /\ UNCHANGED notSerdeVars

SerdeNext == SerdeEncode \/ SerdeDecode

(***************************************************************************)
(* retry over transport errors: the Display form of ClientError            *)
(***************************************************************************)
S_http_error_status == <<"H", "T", "T", "P", " ", "e", "r", "r", "o", "r", ":", " ", "s", "t", "a", "t", "u", "s", " ">>
S_body_len == <<",", " ", "b", "o", "d", "y", " ", "l", "e", "n", ":", " ">>
S_timeout_error == <<"T", "i", "m", "e", "o", "u", "t", " ", "e", "r", "r", "o", "r">>

\* impl fmt::Display for ClientError
ClientError_fmt(e) ==
    IF e.kind = "Http"
    THEN S_http_error_status \o to_str_radix(e.status, 10) \o S_body_len \o to_str_radix(e.len, 10)
    ELSE S_timeout_error

HttpErrorStatuses == {400, 404, 429, 500, 502, 503, 504}
HttpErrors == {ClientError_Http(code, len) : code \in HttpErrorStatuses, len \in 0..MaxHttpBodyLen}
                \cup {ClientError_Timeout}

\* retry is called with the default predicate on a request that fails once
\* with a transport error and then succeeds
HttpRetryInit ==
    /\ max_retries = 1
    /\ \E e \in HttpErrors : operation = <<Err(ClientError_fmt(e)), Ok(42)>>
    /\ should_retry_fn = "None"
    /\ attempt = 0
    /\ calls = 0
    /\ sleeps = <<>>
    /\ retry_pc = "loop"
    /\ retry_result = NoResult

(***************************************************************************)
(* Specifications                                                          *)
(***************************************************************************)
InitRetry ==
    RetryInit /\ transportIdle /\ postIdle /\ solIdle /\ evmIdle /\ regIdle /\ stakeIdle /\ assetIdle /\ apiIdle /\ serdeIdle
SpecRetry == InitRetry /\ [][RetryNext]_vars
InitHttpRetry ==
    HttpRetryInit /\ transportIdle /\ postIdle /\ solIdle /\ evmIdle /\ regIdle /\ stakeIdle /\ assetIdle /\ apiIdle /\ serdeIdle
SpecHttpRetry == InitHttpRetry /\ [][RetryNext]_vars

InitBalanceStaking ==
    BalanceStakingInit /\ retryIdle /\ transportIdle /\ postIdle /\ solIdle /\ evmIdle /\ regIdle /\ assetIdle /\ apiIdle /\ serdeIdle
SpecBalanceStaking == InitBalanceStaking /\ [][BalanceStakingNext]_vars

\* every invocation of operation terminates and every sleep elapses
SpecRetryLive == InitRetry /\ [][RetryNext]_vars /\ WF_vars(RetryNext)

InitTransport ==
    TransportInit /\ retryIdle /\ postIdle /\ solIdle /\ evmIdle /\ regIdle /\ stakeIdle /\ assetIdle /\ apiIdle /\ serdeIdle
SpecTransport == InitTransport /\ [][TransportNext]_vars

InitPost ==
    PostInit /\ retryIdle /\ transportIdle /\ solIdle /\ evmIdle /\ regIdle /\ stakeIdle /\ assetIdle /\ apiIdle /\ serdeIdle
SpecPost == InitPost /\ [][PostNext]_vars

InitSolana ==
    SolInit /\ retryIdle /\ transportIdle /\ postIdle /\ evmIdle /\ regIdle /\ stakeIdle /\ assetIdle /\ apiIdle /\ serdeIdle
SpecSolana == InitSolana /\ [][SolNext]_vars

InitEvm ==
    EvmInit /\ retryIdle /\ transportIdle /\ postIdle /\ solIdle /\ regIdle /\ stakeIdle /\ assetIdle /\ apiIdle /\ serdeIdle
SpecEvm == InitEvm /\ [][EvmNext]_vars

InitRegistry ==
    RegInit /\ retryIdle /\ transportIdle /\ postIdle /\ solIdle /\ evmIdle /\ stakeIdle /\ assetIdle /\ apiIdle /\ serdeIdle
SpecRegistry == InitRegistry /\ [][RegNext]_vars

InitBackoff ==
    BackoffInit /\ transportIdle /\ postIdle /\ solIdle /\ evmIdle /\ regIdle /\ stakeIdle /\ assetIdle /\ apiIdle /\ serdeIdle
SpecBackoff == InitBackoff /\ [][RetryNext]_vars

InitClassify ==
    ClassifyInit /\ retryIdle /\ postIdle /\ solIdle /\ evmIdle /\ regIdle /\ stakeIdle /\ assetIdle /\ apiIdle /\ serdeIdle
SpecClassify == InitClassify /\ [][TransportNext]_vars

InitRetryDecision ==
    DecisionInit /\ transportIdle /\ postIdle /\ solIdle /\ evmIdle /\ regIdle /\ stakeIdle /\ assetIdle /\ apiIdle /\ serdeIdle
SpecRetryDecision == InitRetryDecision /\ [][RetryNext]_vars

InitStaking ==
    StakeInit /\ retryIdle /\ transportIdle /\ postIdle /\ solIdle /\ evmIdle /\ regIdle /\ assetIdle /\ apiIdle /\ serdeIdle
SpecStaking == InitStaking /\ [][StakeNext]_vars

InitStakeFold ==
    FoldInit /\ retryIdle /\ transportIdle /\ postIdle /\ solIdle /\ evmIdle /\ regIdle /\ assetIdle /\ apiIdle /\ serdeIdle
SpecStakeFold == InitStakeFold /\ [][FoldNext]_vars

InitAssets ==
    AssetsInit /\ retryIdle /\ transportIdle /\ postIdle /\ solIdle /\ evmIdle /\ regIdle /\ stakeIdle /\ apiIdle /\ serdeIdle
SpecAssets == InitAssets /\ [][AssetsNext]_vars

InitApi ==
    ApiInit /\ retryIdle /\ transportIdle /\ postIdle /\ solIdle /\ evmIdle /\ regIdle /\ stakeIdle /\ assetIdle /\ serdeIdle
SpecApi == InitApi /\ [][ApiNext]_vars

InitSerde ==
    SerdeInit /\ retryIdle /\ transportIdle /\ postIdle /\ solIdle /\ evmIdle /\ regIdle /\ stakeIdle /\ assetIdle /\ apiIdle
SpecSerde == InitSerde /\ [][SerdeNext]_vars

InitBalance ==
    BalanceInit /\ retryIdle /\ transportIdle /\ postIdle /\ solIdle /\ evmIdle /\ regIdle /\ stakeIdle /\ assetIdle /\ apiIdle
SpecBalance == InitBalance /\ [][SerdeNext]_vars

(***************************************************************************)
(* Claims about retry                                                      *)
(***************************************************************************)
\* operation fails with a retryable error on each of its invocations 1..n
RetryableFailures(n) ==
    \A i \in 1..n :
        /\ operation[i].tag = "Err"
        /\ should_retry_error(should_retry_fn, operation[i].error)

\* C1: when every invocation of operation fails with an error the predicate
\* in force classifies as retryable, retry invokes operation exactly
\* max_retries + 1 times and returns Err with the error of the last
\* invocation.
C1_ExhaustionReturnsLastError ==
    (retry_pc # "idle" /\ RetryableFailures(max_retries + 1)) =>
        /\ calls <= max_retries + 1
        /\ retry_pc = "done" =>
            /\ calls = max_retries + 1
            /\ retry_result = Err(operation[max_retries + 1].error)

C1_Witness ==
    /\ retry_pc = "done"
    /\ RetryableFailures(max_retries + 1)
    /\ max_retries >= 2
    /\ operation[1] # operation[max_retries + 1]
    /\ retry_result = Err(operation[max_retries + 1].error)

\* operation succeeds for the first time on invocation k, after k-1
\* retryable failures
SucceedsAt(k) ==
    /\ k <= max_retries + 1
    /\ RetryableFailures(k - 1)
    /\ operation[k].tag = "Ok"

\* C2: when operation fails with retryable errors on its first k-1
\* invocations and succeeds on the k-th, with k-1 <= max_retries, retry
\* returns Ok with the k-th value after exactly k invocations, and operation
\* is never invoked after it has succeeded.
C2_SuccessAfterFailures ==
    \A k \in 1..(MaxRetries + 1) :
        (retry_pc # "idle" /\ SucceedsAt(k)) =>
            /\ calls <= k
            /\ retry_pc = "done" =>
                /\ calls = k
                /\ retry_result = Ok(operation[k].value)

C2_Witness ==
    /\ retry_pc = "done"
    /\ SucceedsAt(3)
    /\ calls = 3
    /\ retry_result = Ok(operation[3].value)

\* operation fails with a non-retryable error on invocation k, after k-1
\* retryable failures
FailsFatallyAt(k) ==
    /\ k <= max_retries + 1
    /\ RetryableFailures(k - 1)
    /\ operation[k].tag = "Err"
    /\ ~should_retry_error(should_retry_fn, operation[k].error)

\* C3: when an invocation fails with an error the predicate in force
\* classifies as not retryable, retry returns that error at once: no further
\* invocation and no backoff sleep, whatever the retries still available.
C3_NonRetryableReturnsAtOnce ==
    \A k \in 1..(MaxRetries + 1) :
        (retry_pc # "idle" /\ FailsFatallyAt(k)) =>
            /\ calls <= k
            /\ Len(sleeps) <= k - 1
            /\ retry_pc \in {"loop", "sleep", "done"}
            /\ (calls = k) => retry_pc = "done"
            /\ retry_pc = "done" =>
                /\ calls = k
                /\ Len(sleeps) = k - 1
                /\ retry_result = Err(operation[k].error)

\* a first-attempt "404" with max_retries = 3 gives exactly one invocation
C3_Witness ==
    /\ retry_pc = "done"
    /\ max_retries = 3
    /\ should_retry_fn = "None"
    /\ operation[1] = Err(ErrorMsg404)
    /\ calls = 1
    /\ sleeps = <<>>
    /\ retry_result = Err(ErrorMsg404)

(***************************************************************************)
(* Claims about the transport retry policy                                 *)
(***************************************************************************)
\* position of the first answer that is not classified retryable, or one
\* past the script when every answer is retryable
FirstTerminal ==
    LET T == {i \in 1..Len(endpoint) : classify_fn(endpoint[i]) # "retryable"}
    IN  IF T = {} THEN Len(endpoint) + 1 ELSE CHOOSE i \in T : \A j \in T : i <= j

\* C4: a request sent through a transport built with retry_policy is re-sent
\* while the answer is retryable and at most max_retries times after the
\* first attempt (503, 503, 200 with max_retries = 3: success after three
\* attempts; with max_retries = 1: failure after two; 404: failure after one).
C4_TransportRetriesRetryable ==
    transport_pc = "done" =>
        /\ transport_attempts = Min(FirstTerminal, client.retry.max_retries_per_request + 1)
        /\ (endpoint[1] = Response(503) /\ endpoint[2] = Response(503) /\ endpoint[3] = Response(200)
              /\ client.retry.max_retries_per_request = 3) =>
                (transport_attempts = 3 /\ transport_result.tag = "Ok")
        /\ (endpoint[1] = Response(503) /\ endpoint[2] = Response(503) /\ endpoint[3] = Response(200)
              /\ client.retry.max_retries_per_request = 1) =>
                (transport_attempts = 2 /\ transport_result.tag = "Err")
        /\ endpoint[1] = Response(404) =>
                (transport_attempts = 1 /\ transport_result.tag = "Err")

(***************************************************************************)
(* Claims about post                                                       *)
(***************************************************************************)
\* the caller gave the header Content-Type with this value
CallerContentType(value) ==
    /\ post_headers.tag = "Some"
    /\ CONTENT_TYPE \in DOMAIN post_headers.map
    /\ post_headers.map[CONTENT_TYPE] = value

\* a text or binary Content-Type with a body that is not a JSON string, or
\* the binary Content-Type with a string that is not valid hex
MismatchedBody ==
    \/ /\ \E ct \in {TEXT_PLAIN, APPLICATION_FORM_URL_ENCODED, APPLICATION_X_BINARY} : CallerContentType(ct)
       /\ post_body.kind # "String"
    \/ /\ CallerContentType(APPLICATION_X_BINARY)
       /\ post_body.kind = "String"
       /\ \/ Len(post_body.s) % 2 = 1
          \/ \E i \in 1..Len(post_body.s) : post_body.s[i] \notin {"0", "a", "F"}

\* C5: post with a text, form or binary Content-Type and a body that is not a
\* JSON string, or with the binary Content-Type and a string that is not
\* valid hex, returns ClientError::Serialization and sends no request, in
\* both ReqwestClient and RpcClient.
C5_MismatchFailsBeforeSending ==
    (post_pc # "idle" /\ MismatchedBody) =>
        /\ wire = <<>>
        /\ post_pc \in {"start", "done"}
        /\ post_pc = "done" =>
            /\ post_result.tag = "Err"
            /\ post_result.error.kind = "Serialization"

C5_Witness ==
    /\ post_pc = "done"
    /\ post_impl = "RpcClient"
    /\ CallerContentType(APPLICATION_X_BINARY)
    /\ post_body = JsonString(<<"a", "g">>)
    /\ wire = <<>>
    /\ post_result.tag = "Err"
    /\ post_result.error.kind = "Serialization"

(***************************************************************************)
(* Claims about JSON-RPC batches and the Solana token balances             *)
(***************************************************************************)
\* the ids of the answered array, in the order of the array
ResponseIds == [j \in 1..Len(sol_response) |-> sol_response[j].id]

\* C6: batched results are matched to requests by input position: three
\* calls answered with ids reordered as [id2, id3, id1] give
\* extract() = [r1, r2, r3], the results in input order.
C6_ExtractInInputOrder ==
    (/\ sol_pc = "done"
     /\ sol_result.tag = "Ok"
     /\ ResponseIds = <<2, 3, 1>>
     /\ \A j \in 1..3 : sol_response[j].tag = "Value") =>
        sol_extracted = [i \in 1..3 |-> Ledger[sol_token_ids[i]]]

\* C7: each AssetBalance of get_balance_tokens carries the token id of the
\* request whose response it was computed from, one per requested mint in
\* token_ids order, also when some elements of the batch are errors.
C7_BalancesKeepTheirMint ==
    (sol_pc = "done" /\ sol_result.tag = "Ok") =>
        /\ Len(sol_result.value) = Len(sol_token_ids)
        /\ \A i \in 1..Len(sol_result.value) :
            /\ sol_result.value[i].asset_id.token_id = sol_token_ids[i]
            /\ \A j \in 1..Len(sol_response) :
                (sol_response[j].id = i /\ sol_response[j].tag = "Value") =>
                    sol_result.value[i].available = Sum(Ledger[sol_token_ids[i]])

(***************************************************************************)
(* Claims about the EVM token balances                                     *)
(***************************************************************************)
\* C8: get_balance_tokens with N token ids returns exactly N AssetBalances,
\* the i-th for token_ids[i]: zero for a token whose balanceOf failed inside
\* the aggregate3 call, the decoded big-endian value for one that succeeded.
C8_EvmBalancesInInputOrder ==
    (evm_pc = "done" /\ evm_result.tag = "Ok") =>
        /\ Len(evm_result.value) = Len(evm_token_ids)
        /\ \A i \in 1..Len(evm_token_ids) :
            /\ evm_result.value[i].asset_id = [chain |-> evm_chain, token_id |-> evm_token_ids[i]]
            /\ evm_holdings[i].success => evm_result.value[i].available = evm_holdings[i].balance
            /\ ~evm_holdings[i].success => evm_result.value[i].available = 0

C8_Witness ==
    /\ evm_pc = "done"
    /\ evm_result.tag = "Ok"
    /\ evm_token_ids = <<"0xB", "0xA">>
    /\ ~evm_holdings[1].success
    /\ evm_holdings[1].balance = 255
    /\ evm_holdings[2].success
    /\ evm_holdings[2].balance = 256
    /\ evm_result.value[1].available = 0
    /\ evm_result.value[2].available = 256

(***************************************************************************)
(* Claims about the provider registry                                      *)
(***************************************************************************)
Configured(chain) == \E i \in 1..Len(providers) : providers[i] = chain

\* C9: get_provider(chain) returns the not-configured error naming the chain
\* when no provider of the list has it, and otherwise the first provider in
\* list order whose get_chain() equals the chain, never one of another chain.
C9_GetProviderMatchesChain ==
    reg_pc \in {"awaiting", "done"} =>
        /\ ~Configured(reg_chain) =>
            /\ reg_pc = "done"
            /\ reg_selected = 0
            /\ reg_result = Err(<<"Provider for chain ", as_ref(reg_chain), " not found">>)
        /\ Configured(reg_chain) =>
            /\ reg_selected \in 1..Len(providers)
            /\ providers[reg_selected] = reg_chain
            /\ \A i \in 1..(reg_selected - 1) : providers[i] # reg_chain

C9_Witness ==
    /\ reg_pc = "awaiting"
    /\ Len(providers) = 3
    /\ providers[1] # reg_chain
    /\ providers[2] = reg_chain
    /\ providers[3] = reg_chain
    /\ reg_selected = 2

\* the ChainProviders operation an entry point stands for
OperationOf(entry) ==
    IF entry.layer = "ChainProviders" THEN entry.op
    ELSE IF entry.op = "get_balances_coin" THEN "get_balance_coin"
    ELSE IF entry.op = "get_balances_staking" THEN "get_balance_staking"
    ELSE "get_balance_assets"

\* C10: each registry operation calls exactly one method, the matching one,
\* on exactly the provider get_provider selected and returns that provider's
\* result unchanged, value or error; when get_provider fails no provider
\* method is called.
C10_RegistryDelegatesVerbatim ==
    /\ Len(provider_log) <= 1
    /\ reg_pc = "done" =>
        IF Configured(reg_chain)
        THEN /\ provider_log = <<[provider |-> reg_selected, method |-> OperationOf(reg_entry)]>>
             /\ providers[reg_selected] = reg_chain
             /\ provider_out # NoResult
             /\ reg_result = provider_out
        ELSE /\ provider_log = <<>>
             /\ reg_result.tag = "Err"

C10_Witness ==
    /\ reg_pc = "done"
    /\ reg_entry = [layer |-> "ChainClient", op |-> "get_balances_staking"]
    /\ provider_log = <<[provider |-> 2, method |-> "get_balance_staking"]>>
    /\ provider_out = Err("upstream error")
    /\ reg_result = Err("upstream error")

(***************************************************************************)
(* Claims about the Ethereum staking balance                               *)
(***************************************************************************)
\* sum of the balances of the delegations whose state is in S
BalanceIn(ds, S) == Sum([i \in 1..Len(ds) |-> IF ds[i].state \in S THEN ds[i].balance ELSE 0])
\* sum of the rewards of the delegations whose state is in S
RewardsIn(ds, S) == Sum([i \in 1..Len(ds) |-> IF ds[i].state \in S THEN ds[i].rewards ELSE 0])

\* C11: get_ethereum_staking_balance returns one Balance with staked = the
\* balances of the Active delegations, rewards = the rewards of the Active
\* delegations, pending = the balances of the Activating, Deactivating and
\* AwaitingWithdrawal delegations; delegations in other states and the
\* rewards of non-Active delegations are not counted; every other slot is 0.
C11_StakingBalanceFold ==
    (stake_pc = "done" /\ stake_result.tag = "Ok") =>
        /\ stake_result.value.tag = "Some"
        /\ stake_result.value.value.balance =
            [available |-> 0, frozen |-> 0, locked |-> 0,
             staked |-> BalanceIn(delegations, {"Active"}),
             pending |-> BalanceIn(delegations, {"Activating", "Deactivating", "AwaitingWithdrawal"}),
             rewards |-> RewardsIn(delegations, {"Active"}),
             reserved |-> 0, withdrawable |-> 0, metadata |-> None]

C11_Witness ==
    /\ stake_pc = "done"
    /\ delegations = <<[state |-> "Pending", balance |-> 2, rewards |-> 1],
                       [state |-> "Deactivating", balance |-> 1, rewards |-> 1]>>
    /\ stake_result.value.value.balance.pending = 1
    /\ stake_result.value.value.balance.rewards = 0
    /\ stake_result.value.value.balance.staked = 0

\* positions of the delegations in state s
Positions(ds, s) == {i \in 1..Len(ds) : ds[i].state = s}

\* C12: get_ethereum_delegations gives one Active delegation (balance =
\* deposited_balance, rewards = restaked_reward) iff deposited_balance > 0,
\* one Activating delegation (balance = pending_balance +
\* pending_deposited_balance, rewards = 0) iff that sum > 0, then the
\* delegations of withdraw_request, in this order and no other.
C12_DelegationsFromAccountState ==
    (stake_pc \in {"fold", "done"} /\ account_state.tag = "Ok") =>
        LET state == account_state.value
            A == Positions(delegations, "Active")
            B == Positions(delegations, "Activating")
            a == IF state.deposited_balance > 0 THEN 1 ELSE 0
            b == IF state.pending_balance + state.pending_deposited_balance > 0 THEN 1 ELSE 0
        IN  /\ Cardinality(A) = a
            /\ \A i \in A : /\ i = 1
                            /\ delegations[i].balance = state.deposited_balance
                            /\ delegations[i].rewards = state.restaked_reward
            /\ Cardinality(B) = b
            /\ \A i \in B : /\ i = a + 1
                            /\ delegations[i].balance = state.pending_balance + state.pending_deposited_balance
                            /\ delegations[i].rewards = 0
            /\ Len(delegations) = a + b + Len(state.withdraw_request)
            /\ SubSeq(delegations, a + b + 1, Len(delegations))
                 = map_withdraw_request_to_delegations(state.withdraw_request)

C12_Witness ==
    /\ stake_pc = "fold"
    /\ account_state.tag = "Ok"
    /\ account_state.value.deposited_balance = 2
    /\ account_state.value.restaked_reward = 1
    /\ account_state.value.pending_balance = 0
    /\ account_state.value.pending_deposited_balance = 1
    /\ Len(account_state.value.withdraw_request) = 1
    /\ Len(delegations) = 3
    /\ delegations[2] = [state |-> "Activating", balance |-> 1, rewards |-> 0]

(***************************************************************************)
(* Claims about the EVM asset portfolio                                    *)
(***************************************************************************)
\* positions of the returned tokens with a contract address and a non-zero balance
Held(assets) ==
    {i \in 1..Len(assets) : assets[i].contract_address # None /\ assets[i].balance_raw_integer # 0}

\* the k-th smallest member of a set of positions
Nth(P, k) == CHOOSE i \in P : Cardinality({j \in P : j <= i}) = k

\* C13: with an Ankr client, get_balance_assets gives exactly one AssetBalance
\* (token_id = contract address, available = balance) per returned token with
\* a non-null contract address and a non-zero balance, and none for the
\* others ([(0xA,100),(0xB,0)] gives one entry, 0xA with available 100);
\* without an Ankr client it returns the empty list and issues no request.
C13_AssetsFromAnkr ==
    /\ (assets_pc = "done" /\ ankr_client = "Some" /\ ankr_answer.tag = "Ok") =>
        LET assets == ankr_answer.value
            out == assets_result.value
        IN  /\ assets_result.tag = "Ok"
            /\ Len(out) = Cardinality(Held(assets))
            /\ \A k \in 1..Len(out) :
                 /\ out[k].asset_id.token_id = assets[Nth(Held(assets), k)].contract_address
                 /\ out[k].asset_id.chain = assets_chain
                 /\ out[k].balance.available = assets[Nth(Held(assets), k)].balance_raw_integer
            /\ assets = <<TokenBalance(Some("0xA"), 100), TokenBalance(Some("0xB"), 0)>> =>
                 /\ Len(out) = 1
                 /\ out[1].asset_id.token_id = Some("0xA")
                 /\ out[1].balance.available = 100
    /\ (assets_pc # "idle" /\ ankr_client = "None") =>
        /\ ankr_requests = 0
        /\ assets_pc = "done" => assets_result = Ok(<<>>)

C13_Witness ==
    /\ assets_pc = "done"
    /\ ankr_client = "Some"
    /\ ankr_requests = 1
    /\ ankr_answer = Ok(<<TokenBalance(None, 100), TokenBalance(Some("0xA"), 100)>>)
    /\ Len(assets_result.value) = 1

(***************************************************************************)
(* Claims about the api service                                            *)
(***************************************************************************)
\* C14: two balance requests handled concurrently are independent: neither
\* waits for the other's upstream RPC call to complete, so a request whose
\* handler has started is never held back while another request's upstream
\* call is in flight.
C14_RequestsIndependent ==
    \A r \in DOMAIN api_pc : \A s \in DOMAIN api_pc :
        (r # s /\ api_pc[s] = "upstream") => ~(api_pc[r] = "routed" /\ mutex # 0)

C16_BackoffDelays ==
    /\ \A n \in 1..Len(sleeps) : sleeps[n] = IF n <= 10 THEN 2^n ELSE 1800
    /\ \A n \in 1..(Len(sleeps) - 1) : sleeps[n] <= sleeps[n + 1]
    /\ \A n \in 1..Len(sleeps) : sleeps[n] <= 1800

C16_Witness ==
    /\ Len(sleeps) >= 65
    /\ sleeps[10] = 1024
    /\ sleeps[11] = 1800
    /\ sleeps[64] = 1800
    /\ sleeps[65] = 1800
    /\ retry_pc = "done"

(***************************************************************************)
(* Claims about the classification of the transport retry policy           *)
(***************************************************************************)
\* C17: the transport retry policy treats an answer as retryable iff its
\* status is 429, 500, 502, 503 or 504, or there is no response at all; every
\* 2xx status and every other 4xx/5xx status is terminal and is not retried.
C17_RetryableIffListedStatus ==
    transport_attempts >= 1 =>
        LET first == endpoint[1]
            listed == first.tag = "Error" \/ first.status \in {429, 500, 502, 503, 504}
            resent == ~(transport_pc = "done" /\ transport_attempts = 1)
        IN  /\ resent <=> listed
            /\ (classify_fn(first) = "retryable") <=> listed

C17_Witness ==
    /\ transport_pc = "done"
    /\ transport_attempts = 1
    /\ endpoint[1] = Response(501)
    /\ transport_result = Err([kind |-> "Http", status |-> 501])

(***************************************************************************)
(* Claims about the retry predicates                                       *)
(***************************************************************************)
RetryPatterns == {S_429, S_502, S_503, S_504, S_too_many_requests, S_throttled}

\* the lowercased message holds one of the patterns
MentionsRetryPattern(msg) == \E pat \in RetryPatterns : contains(to_lowercase(msg), pat)

\* messages made only of the statuses 400, 401, 404, 500 and the word Error
OtherStatusTokens ==
    {<<>>, <<"4", "0", "0">>, <<"4", "0", "1">>, <<"4", "0", "4">>, <<"5", "0", "0">>,
     <<"E", "r", "r", "o", "r">>}
OtherStatusMessages ==
    {a \o sep \o b : a \in OtherStatusTokens, b \in OtherStatusTokens, sep \in {<<>>, <<" ">>}}

\* C18: default_should_retry(e) is true iff the lowercased display string of
\* e contains one of "429", "502", "503", "504", "too many requests",
\* "throttled" (so the match is case-insensitive); an error that mentions
\* only 400, 401, 404 or 500 is not retried.
C18_DefaultPredicateIffPattern ==
    (should_retry_fn = "None" /\ max_retries >= 1 /\ calls >= 1 /\ operation[1].tag = "Err") =>
        LET msg == operation[1].error
            retried == ~(retry_pc = "done" /\ calls = 1)
        IN  /\ retried <=> MentionsRetryPattern(msg)
            /\ msg \in OtherStatusMessages => ~retried

C18_Witness ==
    /\ retry_pc = "sleep"
    /\ should_retry_fn = "None"
    /\ operation[1] = Err(<<"5", "0", "0", " ", "T", "H", "R", "O", "T", "T", "L", "E", "D">>)
    /\ attempt = 1

\* C19: with a custom predicate p the retry decision for every error is
\* p(error) and the default predicate is not consulted: an error p accepts is
\* retried even if the default predicate rejects it, and an error p rejects
\* is returned at once even if the default predicate accepts it.
C19_CustomPredicateDecides ==
    (should_retry_fn = "custom" /\ calls >= 1 /\ operation[calls].tag = "Err") =>
        LET err == operation[calls].error
        IN  /\ (retry_pc \in {"sleep", "loop"}) =>
                custom_predicate(err)
            /\ (retry_pc = "done") =>
                /\ retry_result = Err(err)
                /\ ~custom_predicate(err) \/ attempt = max_retries

C19_Witness ==
    /\ should_retry_fn = "custom"
    /\ retry_pc = "done"
    /\ calls = 2
    /\ operation[1] = Err(ErrorMsgCustom)
    /\ operation[2] = Err(ErrorMsg503)
    /\ attempt = 1
    /\ attempt < max_retries
    /\ sleeps = <<2>>
    /\ retry_result = Err(ErrorMsg503)

(***************************************************************************)
(* Claims about the bytes post sends                                       *)
(***************************************************************************)
\* value of the Content-Type header of a request on the wire, "" when absent
SentContentType(request) ==
    IF CONTENT_TYPE \in DOMAIN request.headers THEN request.headers[CONTENT_TYPE] ELSE ""

\* JSON text of a body
JsonText(body) ==
    CASE body.kind = "String" -> <<"\"">> \o body.s \o <<"\"">>
      [] body.kind = "Number" -> <<"7">>
      [] body.kind = "Object" -> <<"{", "}">>

\* value of the hex digits the bodies are made of
Nibble(c) == CASE c = "0" -> 0 [] c = "a" -> 10 [] c = "F" -> 15

\* the bytes a string of hex digit pairs stands for
HexBytes(str) == [i \in 1..(Len(str) \div 2) |-> 16 * Nibble(str[2 * i - 1]) + Nibble(str[2 * i])]

\* C20: the bytes post sends are a function of the Content-Type header and
\* the body only: application/json, no Content-Type or an unrecognized
\* Content-Type gives the JSON serialization of the body; text/plain or
\* application/x-www-form-urlencoded with a string body gives the bytes of
\* the string without JSON quoting; application/x-binary with a valid hex
\* string gives the hex-decoded bytes.
C20_BodyBytesByContentType ==
    \A k \in 1..Len(wire) :
        LET ct == SentContentType(wire[k])
        IN  /\ ct \in {APPLICATION_JSON, "", "unknown/type"} => wire[k].body = JsonText(post_body)
            /\ ct \in {TEXT_PLAIN, APPLICATION_FORM_URL_ENCODED} =>
                 (post_body.kind = "String" /\ wire[k].body = post_body.s)
            /\ ct = APPLICATION_X_BINARY =>
                 (post_body.kind = "String" /\ wire[k].body = HexBytes(post_body.s))

C20_Witness ==
    /\ Len(wire) = 1
    /\ post_impl = "ReqwestClient"
    /\ SentContentType(wire[1]) = APPLICATION_X_BINARY
    /\ post_body = JsonString(<<"a", "F">>)
    /\ wire[1].body = <<175>>

(***************************************************************************)
(* Claims about the request URL                                            *)
(***************************************************************************)
\* number of '/' the base URL of the client ends with
TrailingSlashes ==
    LET base == client.base_url
        N == {n \in 0..Len(base) : \A i \in (Len(base) - n + 1)..Len(base) : base[i] = "/"}
    IN  CHOOSE n \in N : \A m \in N : m <= n

\* C21 as stated: the request URL is the base_url with exactly one trailing
\* '/' removed, if it has one, followed by the path; a base ending in several
\* '/' loses only the last one.
C21_OneTrailingSlashRemoved ==
    transport_attempts >= 1 =>
        request_url = SubSeq(client.base_url, 1, Len(client.base_url) - Min(TrailingSlashes, 1)) \o path

\* C21 amended: the request URL is the base_url with every trailing '/'
\* removed, followed by the path: a base ending in one or in several '/'
\* loses all of them, a base with no trailing '/' is unchanged.
C21_EveryTrailingSlashRemoved ==
    transport_attempts >= 1 =>
        request_url = SubSeq(client.base_url, 1, Len(client.base_url) - TrailingSlashes) \o path

C21_Witness ==
    /\ transport_attempts >= 1
    /\ client.base_url = Url_a_slashes
    /\ path = Path_v1
    /\ request_url = <<"h", "t", "t", "p", ":", "/", "/", "a", "/", "v", "1">>

(***************************************************************************)
(* Claims about JsonRpcResults::extract                                    *)
(***************************************************************************)
\* positions of the Value entries of the answered array
ValuePositions == {j \in 1..Len(sol_response) : sol_response[j].tag = "Value"}

\* C22: extract returns exactly the result values of the Value entries, in
\* their original relative order, and drops every Error entry: the output is
\* as long as the number of Value entries, an Error neither aborts the
\* extraction nor contributes a placeholder.
C22_ExtractKeepsValuesInOrder ==
    (sol_pc = "done" /\ sol_result.tag = "Ok") =>
        /\ Len(sol_extracted) = Cardinality(ValuePositions)
        /\ \E f \in [1..Len(sol_extracted) -> 1..Len(sol_response)] :
            /\ \A i \in 1..Len(sol_extracted) : f[i] \in ValuePositions
            /\ \A i, j \in 1..Len(sol_extracted) : i < j => f[i] < f[j]
            /\ \A i \in 1..Len(sol_extracted) : sol_extracted[i] = sol_response[f[i]].result

\* a value, an error, a value: the two values come out, in order
C22_Witness ==
    /\ sol_pc = "done"
    /\ Len(sol_response) = 3
    /\ sol_response[1].tag = "Value"
    /\ sol_response[2].tag = "Error"
    /\ sol_response[3].tag = "Value"
    /\ sol_response[1].result # sol_response[3].result
    /\ sol_extracted = <<sol_response[1].result, sol_response[3].result>>

(***************************************************************************)
(* Claims about the BigUint serde helpers                                  *)
(***************************************************************************)
HexDecoders == {"biguint_hex_str", "option_hex_str", "biguint_from_hex_str"}
HexDigitChars == {"0", "1", "a", "F"}
HexDigitValue(c) == CASE c = "0" -> 0 [] c = "1" -> 1 [] c = "a" -> 10 [] c = "F" -> 15

RECURSIVE Pow16(_)
Pow16(k) == IF k = 0 THEN 1 ELSE 16 * Pow16(k - 1)

RECURSIVE PositionalValue(_, _)
\* sum of digit * 16^(distance from the last digit) over the first k digits
PositionalValue(ds, k) ==
    IF k = 0 THEN 0
    ELSE HexDigitValue(ds[k]) * Pow16(Len(ds) - k) + PositionalValue(ds, k - 1)

\* the hex digits of the received text, with the 0x prefix taken off
ReceivedDigits ==
    IF Len(serde_wire.text) >= 2 /\ SubSeq(serde_wire.text, 1, 2) = <<"0", "x">>
    THEN SubSeq(serde_wire.text, 3, Len(serde_wire.text))
    ELSE serde_wire.text

\* what a decoder of the codec returns for the integer n
Decoded(n) == IF serde_codec \in OptionCodecs THEN Ok(Some(n)) ELSE Ok(n)

\* C23: for every n, decimal_decode(decimal_encode(n)) = n and
\* hex_decode(hex_encode(n)) = n, and every hex decoder accepts the hex
\* digits with and without the 0x prefix and yields their value for both.
C23_RoundTripAndOptionalPrefix ==
    serde_pc = "done" =>
        /\ (serde_value # None /\ serde_codec \in IntegerCodecs) =>
                serde_decoded = Ok(serde_value.value)
        /\ (serde_value = None /\ serde_codec \in HexDecoders
                /\ ReceivedDigits # <<>>
                /\ \A i \in 1..Len(ReceivedDigits) : ReceivedDigits[i] \in HexDigitChars) =>
                serde_decoded = Decoded(PositionalValue(ReceivedDigits, Len(ReceivedDigits)))

\* C24: decoding "", "0", "0x" or "xyz" with any decimal or hex decoder
\* returns a decode error as a value, never a panic and never a number.
C24_MalformedTextIsADecodeError ==
    (/\ serde_pc = "done"
     /\ serde_value = None
     /\ serde_wire.text \in {<<>>, <<"0">>, <<"0", "x">>, <<"x", "y", "z">>}) =>
        serde_decoded.tag = "Err"

(***************************************************************************)
(* Claims about the JSON form of Balance and AssetBalance                  *)
(***************************************************************************)
\* the JSON object of the Balance on the wire
BalanceOnWire ==
    IF serde_codec = "Balance" THEN serde_wire ELSE serde_wire.fields["balance"]

DecimalChars == {"0", "1", "2", "3", "4", "5", "6", "7", "8", "9"}

\* C25: every Balance and AssetBalance survives encode then decode through
\* JSON unchanged, zero slots and large slots included, and every numeric
\* slot is on the wire as a string of decimal digits, never a number.
C25_BalanceRoundTrip ==
    /\ serde_pc \in {"decode", "done"} =>
        \A f \in NumericSlots :
            /\ BalanceOnWire.fields[f].json = "string"
            /\ BalanceOnWire.fields[f].text # <<>>
            /\ \A i \in 1..Len(BalanceOnWire.fields[f].text) :
                    BalanceOnWire.fields[f].text[i] \in DecimalChars
    /\ serde_pc = "done" => serde_decoded = Ok(serde_value.value)

\* a balance with a large slot, zero slots and metadata has made the round trip
C25_Witness ==
    /\ serde_pc = "done"
    /\ serde_codec = "Balance"
    /\ serde_value.value.available = MaxBigUint
    /\ serde_value.value.frozen = 0
    /\ serde_value.value.metadata # None
    /\ serde_wire.fields["frozen"] = json_str(<<"0">>)
    /\ serde_decoded = Ok(serde_value.value)

(***************************************************************************)
(* Claims about the sleeps of retry                                        *)
(***************************************************************************)
\* sleeps and invocations counted at every point of the loop
SleepsCounted ==
    /\ Len(sleeps) <= max_retries
    /\ calls <= max_retries + 1
    /\ (retry_pc = "loop") => Len(sleeps) = calls
    /\ (retry_pc = "sleep") => (calls >= 1 /\ Len(sleeps) = calls)
    /\ (retry_pc = "done") => Len(sleeps) = calls - 1

\* a sleep starts only on a failure the predicate in force retries, and the
\* step after a sleep invokes operation again
SleepStep ==
    /\ (sleeps' # sleeps) =>
        /\ Len(sleeps') = Len(sleeps) + 1
        /\ calls' = calls + 1
        /\ operation[calls'].tag = "Err"
        /\ should_retry_error(should_retry_fn, operation[calls'].error)
        /\ retry_pc' = "sleep"
    /\ (retry_pc = "sleep") => (retry_pc' = "loop" /\ calls' = calls /\ sleeps' = sleeps)
    /\ (retry_pc = "done") => UNCHANGED retryVars

\* C26: a backoff sleep occurs only between a retryable failure and the next
\* invocation of operation, never before the first invocation, after a
\* success or after the failure that is returned; sleeps = invocations - 1
\* and at most max_retries; retry terminates after at most max_retries + 1
\* invocations.
C26_SleepsOnlyBetweenInvocations ==
    /\ [](retry_pc # "idle" => SleepsCounted)
    /\ [][SleepStep]_vars
    /\ <>(retry_pc = "done" /\ calls <= max_retries + 1 /\ Len(sleeps) = calls - 1)

\* two retryable failures, two sleeps, then a returned outcome on the third invocation
C26_Witness ==
    /\ retry_pc = "done"
    /\ calls = 3
    /\ Len(sleeps) = 2
    /\ max_retries >= 2
    /\ operation[1].tag = "Err"
    /\ operation[2].tag = "Err"

(***************************************************************************)
(* Claims about retrying transport errors                                  *)
(***************************************************************************)
\* the three status digits of "HTTP error: status NNN, body len: ..."
DisplayedStatus(msg) == SubSeq(msg, Len(S_http_error_status) + 1, Len(S_http_error_status) + 3)

IsHttpDisplay(msg) ==
    /\ Len(msg) > Len(S_http_error_status)
    /\ SubSeq(msg, 1, Len(S_http_error_status)) = S_http_error_status

\* C27: with the default predicate an Http{status, len} error is retried
\* only if its status is 429, 502, 503 or 504, whatever its body length:
\* an Http error with status 404 is never retried.
C27_HttpRetryByStatusAlone ==
    (/\ retry_pc # "idle"
     /\ should_retry_fn = "None"
     /\ IsHttpDisplay(operation[1].error)
     /\ Len(sleeps) >= 1) =>
        DisplayedStatus(operation[1].error) \in {S_429, S_502, S_503, S_504}

(***************************************************************************)
(* Claims about the mapping of responses                                   *)
(***************************************************************************)
\* C28: for ReqwestClient and RpcClient alike, the result is Ok only when the
\* upstream answered with a 2xx status; a non-2xx response gives
\* ClientError::Http{status, len} with len the length of the body, whatever
\* the body contains, and a 2xx response whose body does not decode gives
\* ClientError::Serialization.
C28_OkOnlyOn2xx ==
    (post_pc = "done" /\ post_response.tag = "Response") =>
        /\ (post_result.tag = "Ok") => post_response.status \in 200..299
        /\ (post_response.status \notin 200..299) =>
                post_result = Err(ClientError_Http(post_response.status, Len(post_response.data)))
        /\ (post_response.status \in 200..299 /\ post_response.data # Body_json) =>
                (post_result.tag = "Err" /\ post_result.error.kind = "Serialization")

(***************************************************************************)
(* Claims about the two implementations of post                            *)
(***************************************************************************)
\* the caller gave no Content-Type entry
NoContentTypeGiven ==
    post_headers.tag = "None" \/ CONTENT_TYPE \notin DOMAIN post_headers.map

\* C29: ReqwestClient.post and RpcClient.post put the same request on the
\* wire for every body and headers: the same decision to send or to fail,
\* the same body bytes, the same Content-Type header; every POST carries a
\* Content-Type header, application/json when the caller gave no headers or
\* headers without a Content-Type entry.
C29_SameRequestOnTheWire ==
    post_pc # "idle" =>
        /\ post_request_body("ReqwestClient", post_headers, post_body).tag
                = post_request_body("RpcClient", post_headers, post_body).tag
        /\ \A k \in 1..Len(wire) :
            /\ wire[k].body = post_request_body("ReqwestClient", post_headers, post_body).value
            /\ wire[k].body = post_request_body("RpcClient", post_headers, post_body).value
            /\ CONTENT_TYPE \in DOMAIN wire[k].headers
            /\ CONTENT_TYPE \in DOMAIN reqwest_headers(post_headers)
            /\ wire[k].headers[CONTENT_TYPE] = reqwest_headers(post_headers)[CONTENT_TYPE]
            /\ wire[k].headers[CONTENT_TYPE] = rpc_headers(post_headers)[CONTENT_TYPE]
            /\ NoContentTypeGiven => wire[k].headers[CONTENT_TYPE] = APPLICATION_JSON

(***************************************************************************)
(* Claims about get_balance_staking                                        *)
(***************************************************************************)
\* the account has no deposit, no pending amount and no withdraw request
EmptyAccount ==
    /\ account_state.tag = "Ok"
    /\ account_state.value.deposited_balance = 0
    /\ account_state.value.restaked_reward = 0
    /\ account_state.value.pending_balance = 0
    /\ account_state.value.pending_deposited_balance = 0
    /\ get_ethereum_delegations(account_state.value) = <<>>

\* on Ethereum every account state that was read gives Some(AssetBalance) of
\* the native Ethereum asset, all zero for an empty account
SomeOnEthereum ==
    (stake_pc = "done" /\ staking_chain = "ethereum" /\ account_state.tag = "Ok") =>
        /\ stake_result.tag = "Ok"
        /\ stake_result.value.tag = "Some"
        /\ stake_result.value.value.asset_id = [chain |-> "Ethereum", token_id |-> None]
        /\ EmptyAccount =>
            /\ stake_result.value.value.balance.staked = 0
            /\ stake_result.value.value.balance.pending = 0
            /\ stake_result.value.value.balance.rewards = 0

\* C30 as stated: on Ethereum get_balance_staking returns Some(AssetBalance)
\* with the native Ethereum asset id for every account state read, all zero
\* for an empty account; None is returned only on EVM chains other than
\* Ethereum and SmartChain, and there without any RPC call.
C30_NoneOnlyOnOtherChains ==
    /\ SomeOnEthereum
    /\ (stake_pc = "done" /\ stake_result = Ok(None)) =>
        (staking_chain \notin {"ethereum", "smartchain"} /\ staking_rpc_calls = 0)

\* C30 amended: on Ethereum get_balance_staking returns Some(AssetBalance)
\* with the native Ethereum asset id for every account state read, all zero
\* for an empty account; on EVM chains other than Ethereum and SmartChain it
\* returns None without any RPC call; None is also returned on SmartChain,
\* after its contract read, when the delegator has no delegations.
C30_NoneOffEthereum ==
    /\ SomeOnEthereum
    /\ (stake_pc = "done" /\ staking_chain \notin {"ethereum", "smartchain"}) =>
        (stake_result = Ok(None) /\ staking_rpc_calls = 0)
    /\ (stake_pc = "done" /\ stake_result = Ok(None)) =>
        /\ staking_chain # "ethereum"
        /\ staking_chain = "smartchain" => staking_rpc_calls = 1

\* an empty Ethereum account was read and an all-zero balance returned
C30_Witness ==
    /\ stake_pc = "done"
    /\ staking_chain = "ethereum"
    /\ EmptyAccount
    /\ staking_rpc_calls = 1
    /\ stake_result = Ok(Some(new_balance([chain |-> "Ethereum", token_id |-> None],
                                          stake_balance(0, 0, Some(0)))))

====
